---- MODULE Spec2Model ----
(***************************************************************************)
(* Task-to-ticket matching pipeline of the timesheet service:              *)
(* processEntriesForMatching / batchPredictTickets (todo-processing) and   *)
(* batchFindTicketMatches / callGeminiWithBatchRetry /                     *)
(* parseBatchGeminiResponse (gemini-ticket-matcher); the model cascade of  *)
(* callGeminiWithBatchRetry and callGeminiWithRetry over several calls of  *)
(* one process; logMultipleWorkEntries (timesheet-logging).                *)
(*                                                                         *)
(* Conventions.                                                            *)
(*  - A JavaScript string whose characters matter (task text, ticket       *)
(*    summary, status name ...) is a sequence of one-character strings.    *)
(*    A string that is only compared for equality (ticket key, model       *)
(*    name, method, status of a ProcessedEntry) is a TLA+ string.          *)
(*  - A nullable / optional JavaScript value is a sequence of length 0     *)
(*    (null or undefined) or 1 (the value).                                *)
(*  - A score is an integer number of 1/ScoreScale units, so 0.3 is 18,    *)
(*    0.5 is 30, 0.75 is 45 and 1 is 60; k/n is exact for n in 1..6.       *)
(***************************************************************************)
EXTENDS Integers, Sequences, FiniteSets, TLC

\* ------------------------------------------------------------------ bounds
MaxTasks == 2
MaxReplyEntries == 2
MaxAlternatives == 3

\* --------------------------------------------------------------- constants
ScoreScale == 2 * 2 * 3 * 5

MAX_RETRIES == 3

MODEL_NAME == "models/gemini-2.5-flash"

FALLBACK_MODELS ==
  << "models/gemini-2.5-flash", "models/gemini-2.5-pro",
     "models/gemini-2.0-flash", "models/gemini-flash-latest",
     "models/gemini-pro-latest", "models/gemini-2.0-flash-lite" >>

EXCLUDED_STATUS ==
  { <<"d","o","n","e">>,
    <<"d","e","p","l","o","y","e","d">>,
    <<"c","l","o","s","e","d">>,
    <<"c","a","n","c","e","l","l","e","d">>,
    <<"r","o","l","l","b","a","c","k">>,
    <<"r","e","a","d","y"," ","t","o"," ","d","e","p","l","o","y">> }

EXCLUDED_ISSUE_TYPES ==
  { <<"s","t","o","r","y">>,
    <<"e","p","i","c">>,
    <<"f","e","a","t","u","r","e"," ","s","t","o","r","y">> }

DEFAULT_THRESHOLDS ==
  [highConfidence |-> (75 * ScoreScale) \div 100,
   choice |-> (50 * ScoreScale) \div 100,
   minimum |-> (30 * ScoreScale) \div 100]

\* the literal 0.2 of batchPredictTickets' keyword step
KeywordFloor == (20 * ScoreScale) \div 100

\* the literal 5 passed to getTopKeywordMatches
PrelimLimit == 5

\* ---------------------------------------------------------- string helpers
Null == << >>

Some(x) == << x >>

Min(a, b) == IF a <= b THEN a ELSE b

Max(a, b) == IF a >= b THEN a ELSE b

UpperChars ==
  <<"A","B","C","D","E","F","G","H","I","J","K","L","M",
    "N","O","P","Q","R","S","T","U","V","W","X","Y","Z">>

LowerChars ==
  <<"a","b","c","d","e","f","g","h","i","j","k","l","m",
    "n","o","p","q","r","s","t","u","v","w","x","y","z">>

toLowerChar(c) ==
  IF \E i \in 1..Len(UpperChars) : UpperChars[i] = c
  THEN LowerChars[CHOOSE i \in 1..Len(UpperChars) : UpperChars[i] = c]
  ELSE c

\* String.prototype.toLowerCase
toLowerCase(s) == [i \in 1..Len(s) |-> toLowerChar(s[i])]

\* String.prototype.includes
includes(text, word) ==
  \E i \in 1..(Len(text) - Len(word) + 1) :
    SubSeq(text, i, i + Len(word) - 1) = word

isSpace(c) == c = " "

\* s.replace(/\s+/g, "")
RECURSIVE removeSpaces(_)
removeSpaces(s) ==
  IF s = << >> THEN << >>
  ELSE IF isSpace(Head(s)) THEN removeSpaces(Tail(s))
  ELSE <<Head(s)>> \o removeSpaces(Tail(s))

\* s.replace(/[\[\]]/g, "")
RECURSIVE removeBrackets(_)
removeBrackets(s) ==
  IF s = << >> THEN << >>
  ELSE IF Head(s) \in {"[", "]"} THEN removeBrackets(Tail(s))
  ELSE <<Head(s)>> \o removeBrackets(Tail(s))

\* s.split(/\s+/): the maximal runs of non-space characters; a leading or
\* trailing run of spaces yields an empty first or last element.
RECURSIVE splitFrom(_, _, _)
splitFrom(s, i, cur) ==
  IF i > Len(s) THEN <<cur>>
  ELSE IF isSpace(s[i])
       THEN IF i > 1 /\ isSpace(s[i - 1])
            THEN splitFrom(s, i + 1, cur)
            ELSE <<cur>> \o splitFrom(s, i + 1, << >>)
       ELSE splitFrom(s, i + 1, Append(cur, s[i]))

split(s) == splitFrom(s, 1, << >>)

\* text.match(/\[([^\]]+)\]/g) || []: the leftmost non-overlapping spans
\* "[" , one or more characters other than "]" , "]".
RECURSIVE bracketMatchesFrom(_, _)
bracketMatchesFrom(text, i) ==
  IF i > Len(text) THEN << >>
  ELSE IF text[i] = "["
          /\ \E j \in (i + 2)..Len(text) : text[j] = "]"
          /\ text[i + 1] # "]"
       THEN LET j == CHOOSE k \in (i + 2)..Len(text) :
                        /\ text[k] = "]"
                        /\ \A m \in (i + 2)..(k - 1) : text[m] # "]"
            IN  <<SubSeq(text, i, j)>> \o bracketMatchesFrom(text, j + 1)
       ELSE bracketMatchesFrom(text, i + 1)

\* ------------------------------------------------------- candidate filter
matchesProjectIdentifier(ticket, projectIdentifier) ==
  IF projectIdentifier = Null THEN TRUE
  ELSE LET projectLower == toLowerCase(projectIdentifier[1])
           ticketText == toLowerCase(ticket.summary) \o <<" ">>
                           \o toLowerCase(ticket.description)
           bracketMatches == bracketMatchesFrom(ticketText, 1)
       IN  \E b \in 1..Len(bracketMatches) :
             LET bracketContent == removeBrackets(toLowerCase(bracketMatches[b]))
             IN  \/ includes(bracketContent, projectLower)
                 \/ includes(projectLower, removeSpaces(bracketContent))

\* statusValid comparing the names as they are, without toLowerCase
statusValid_CaseSensitive(ticket) ==
  /\ ticket.issueType \notin EXCLUDED_ISSUE_TYPES
  /\ ticket.status \notin EXCLUDED_STATUS

\* the statusValid test shared by the filters of both modules
statusValid(ticket) ==
  /\ toLowerCase(ticket.issueType) \notin EXCLUDED_ISSUE_TYPES
  /\ toLowerCase(ticket.status) \notin EXCLUDED_STATUS

\* ---------------------------------------------------------- lexical scorer
\* the inner loop of getTopKeywordMatches: one 1/taskWords.length per word
\* longer than 2 characters that the search text includes
keywordScore(taskWords, ticket) ==
  LET searchText == toLowerCase(ticket.summary \o <<" ">> \o ticket.description)
      hits == { w \in 1..Len(taskWords) :
                  Len(taskWords[w]) > 2 /\ includes(searchText, taskWords[w]) }
  IN  (Cardinality(hits) * ScoreScale) \div Len(taskWords)

\* Array.prototype.sort((a, b) => b.score - a.score): stable insertion of
\* each element after every element whose score is not smaller
RECURSIVE insertByScore(_, _)
insertByScore(sorted, item) ==
  IF sorted = << >> THEN <<item>>
  ELSE IF Head(sorted).score >= item.score
       THEN <<Head(sorted)>> \o insertByScore(Tail(sorted), item)
       ELSE <<item>> \o sorted

RECURSIVE sortByScoreDesc(_)
sortByScoreDesc(s) ==
  IF s = << >> THEN << >>
  ELSE insertByScore(sortByScoreDesc(SubSeq(s, 1, Len(s) - 1)), s[Len(s)])

\* Array.prototype.slice(from, to) with 0-based, end-exclusive indices
slice(s, from, to) == SubSeq(s, from + 1, Min(to, Len(s)))

\* { ...ticket, prelimScore: score }
withPrelimScore(ticket, score) ==
  [f \in DOMAIN ticket \cup {"prelimScore"} |->
     IF f = "prelimScore" THEN score ELSE ticket[f]]

\* getTopKeywordMatches that scores the tickets from the last to the first
getTopKeywordMatches_LastSeenFirst(task, tickets, limit, projectIdentifier) ==
  LET Relevant(t) == statusValid(t) /\ matchesProjectIdentifier(t, projectIdentifier)
      relevantTickets == SelectSeq(tickets, Relevant)
      taskWords == split(toLowerCase(task))
      scored == [i \in 1..Len(relevantTickets) |->
                   [ticket |-> relevantTickets[Len(relevantTickets) + 1 - i],
                    score |-> keywordScore(taskWords,
                                           relevantTickets[Len(relevantTickets) + 1 - i])]]
      Positive(x) == x.score > 0
      scoredTickets == SelectSeq(scored, Positive)
      top == slice(sortByScoreDesc(scoredTickets), 0, limit)
  IN  [i \in 1..Len(top) |-> withPrelimScore(top[i].ticket, top[i].score)]

getTopKeywordMatches(task, tickets, limit, projectIdentifier) ==
  LET Relevant(t) == statusValid(t) /\ matchesProjectIdentifier(t, projectIdentifier)
      relevantTickets == SelectSeq(tickets, Relevant)
      taskWords == split(toLowerCase(task))
      scored == [i \in 1..Len(relevantTickets) |->
                   [ticket |-> relevantTickets[i],
                    score |-> keywordScore(taskWords, relevantTickets[i])]]
      Positive(x) == x.score > 0
      scoredTickets == SelectSeq(scored, Positive)
      top == slice(sortByScoreDesc(scoredTickets), 0, limit)
  IN  [i \in 1..Len(top) |-> withPrelimScore(top[i].ticket, top[i].score)]

\* -------------------------------------------------------------- todo parser
\* the characters U+2714 (check mark), U+2610 (ballot box) and the line feed
CheckMark == "U+2714"

BallotBox == "U+2610"

LineFeed == "\n"

RECURSIVE trimStart(_)
trimStart(s) ==
  IF s # << >> /\ isSpace(Head(s)) THEN trimStart(Tail(s)) ELSE s

RECURSIVE trimEnd(_)
trimEnd(s) ==
  IF s # << >> /\ isSpace(s[Len(s)]) THEN trimEnd(SubSeq(s, 1, Len(s) - 1)) ELSE s

\* String.prototype.trim
trim(s) == trimEnd(trimStart(s))

startsWith(s, prefix) ==
  Len(prefix) <= Len(s) /\ SubSeq(s, 1, Len(prefix)) = prefix

\* the index of the first c at or after position from, 0 when there is none
indexOf(s, c, from) ==
  IF \E i \in from..Len(s) : s[i] = c
  THEN CHOOSE i \in from..Len(s) : s[i] = c /\ \A j \in from..(i - 1) : s[j] # c
  ELSE 0

\* content.split("\n")
RECURSIVE splitLines(_)
splitLines(content) ==
  LET lf == indexOf(content, LineFeed, 1)
  IN  IF lf = 0 THEN <<content>>
      ELSE <<SubSeq(content, 1, lf - 1)>>
             \o splitLines(SubSeq(content, lf + 1, Len(content)))

\* the literal text "@started(", "@done(" or "@lasted(" of the three regexes
annotationOpen(name) ==
  CASE name = "started" -> <<"@","s","t","a","r","t","e","d","(">>
    [] name = "done" -> <<"@","d","o","n","e","(">>
    [] name = "lasted" -> <<"@","l","a","s","t","e","d","(">>

\* s starts with name's literal, one or more characters other than ")" and
\* a ")": the index of that ")", 0 otherwise
annotationEnd(s, name) ==
  LET open == annotationOpen(name)
      close == indexOf(s, ")", Len(open) + 1)
  IN  IF startsWith(s, open) /\ close > Len(open) + 1 THEN close ELSE 0

\* one group (?:\s+@name\([^)]+\))? of completedMatch's regex matched at the
\* head of s: what is left of s after it
afterAnnotation(s, name) ==
  LET t == trimStart(s)
  IN  IF t # s /\ annotationEnd(t, name) > 0
      THEN SubSeq(t, annotationEnd(t, name) + 1, Len(t))
      ELSE s

\* s matches the three optional groups, in their order, up to the end
annotationsOnly(s) ==
  afterAnnotation(afterAnnotation(afterAnnotation(s, "started"), "done"), "lasted") = << >>

\* trimmed.match(/^U+2714\s+(.+?)(?:\s+@started\([^)]+\))?(?:\s+@done\([^)]+\))?
\* (?:\s+@lasted\([^)]+\))?$/): group 1, the shortest text after which only
\* the optional groups follow
completedMatch(trimmed) ==
  IF Len(trimmed) >= 3 /\ trimmed[1] = CheckMark /\ isSpace(trimmed[2])
  THEN LET rest == trimStart(Tail(trimmed))
           k == CHOOSE n \in 1..Len(rest) :
                  /\ annotationsOnly(SubSeq(rest, n + 1, Len(rest)))
                  /\ \A m \in 1..(n - 1) : ~annotationsOnly(SubSeq(rest, m + 1, Len(rest)))
       IN  Some(SubSeq(rest, 1, k))
  ELSE Null

\* trimmed.match(/^[-U+2610]\s+(.+)$/): group 1
incompleteMatch(trimmed) ==
  IF Len(trimmed) >= 3 /\ trimmed[1] \in {"-", BallotBox} /\ isSpace(trimmed[2])
  THEN Some(trimStart(Tail(trimmed)))
  ELSE Null

\* task.match(/^\[([^\]]+)\]\s*(.+)$/): groups 1 and 2
projectMatch(task) ==
  LET close == indexOf(task, "]", 2)
      rest == SubSeq(task, close + 1, Len(task))
  IN  IF task # << >> /\ task[1] = "[" /\ close >= 3 /\ close < Len(task)
      THEN Some(<<SubSeq(task, 2, close - 1),
                  IF trimStart(rest) = << >> THEN <<rest[Len(rest)]>>
                  ELSE trimStart(rest)>>)
      ELSE Null

\* trimmed.match(/@name\(([^)]+)\)/): group 1 of the leftmost match
annotationMatch(trimmed, name) ==
  LET Starts(i) == annotationEnd(SubSeq(trimmed, i, Len(trimmed)), name) > 0
  IN  IF \E i \in 1..Len(trimmed) : Starts(i)
      THEN LET i == CHOOSE p \in 1..Len(trimmed) :
                      Starts(p) /\ \A q \in 1..(p - 1) : ~Starts(q)
               tail == SubSeq(trimmed, i, Len(trimmed))
           IN  Some(SubSeq(tail, Len(annotationOpen(name)) + 1,
                           annotationEnd(tail, name) - 1))
      ELSE Null

\* the TodoEntry record (projectIdentifier and timeInfo are optional)
TodoEntry(originalLine, task, isCompleted, timeInfo, projectIdentifier) ==
  [originalLine |-> originalLine, task |-> task, isCompleted |-> isCompleted,
   timeInfo |-> timeInfo, projectIdentifier |-> projectIdentifier]

\* extractProject that takes the identifier as it stands between the brackets
extractProject_Untrimmed(task) ==
  LET pm == projectMatch(task)
      newTask == IF pm = Null THEN << >> ELSE trim(pm[1][2])
  IN  [task |-> IF newTask # << >> THEN newTask ELSE task,
       projectIdentifier |-> IF pm = Null THEN Null ELSE Some(pm[1][1])]

\* the project tag step shared by both branches of parseTodoLine: the task
\* and the project identifier (set only when it is a non-empty string)
extractProject(task) ==
  LET pm == projectMatch(task)
      projectIdentifier == IF pm = Null THEN Null ELSE Some(trim(pm[1][1]))
      newTask == IF pm = Null THEN << >> ELSE trim(pm[1][2])
  IN  [task |-> IF newTask # << >> THEN newTask ELSE task,
       projectIdentifier |->
         IF projectIdentifier # Null /\ projectIdentifier[1] # << >>
         THEN projectIdentifier ELSE Null]

\* the timeInfo object of a completed line: undefined when it has no key
extractTimeInfo(trimmed) ==
  LET timeInfo == [started |-> annotationMatch(trimmed, "started"),
                   done |-> annotationMatch(trimmed, "done"),
                   lasted |-> annotationMatch(trimmed, "lasted")]
  IN  IF timeInfo.started = Null /\ timeInfo.done = Null /\ timeInfo.lasted = Null
      THEN Null ELSE Some(timeInfo)

parseTodoLine(line) ==
  LET trimmed == trim(line)
      completed == completedMatch(trimmed)
      incomplete == incompleteMatch(trimmed)
  IN  IF trimmed = << >> THEN Null
      ELSE IF completed # Null
      THEN IF trim(completed[1]) = << >> THEN Null
           ELSE LET p == extractProject(trim(completed[1]))
                IN  Some(TodoEntry(trimmed, p.task, TRUE,
                                   extractTimeInfo(trimmed), p.projectIdentifier))
      ELSE IF incomplete # Null
      THEN IF trim(incomplete[1]) = << >> THEN Null
           ELSE LET p == extractProject(trim(incomplete[1]))
                IN  Some(TodoEntry(trimmed, p.task, FALSE, Null, p.projectIdentifier))
      ELSE Null

\* parseTodoContent that puts each entry in front of the earlier ones
parseTodoContent_Unshift(content) ==
  LET lines == splitLines(content)
      parsed == [i \in 1..Len(lines) |-> parseTodoLine(lines[Len(lines) + 1 - i])]
      Recognized(e) == e # Null
      kept == SelectSeq(parsed, Recognized)
  IN  [i \in 1..Len(kept) |-> kept[i][1]]

parseTodoContent(content) ==
  LET lines == splitLines(content)
      parsed == [i \in 1..Len(lines) |-> parseTodoLine(lines[i])]
      Recognized(e) == e # Null
      kept == SelectSeq(parsed, Recognized)
  IN  [i \in 1..Len(kept) |-> kept[i][1]]

\* ------------------------------------------------------- input universe
\* ProcessedTicket records as fetchAllUserTickets / fetchSubTicketsFromEpics
\* build them: key, summary, description, status and issueType are strings.
Ticket(key, summary, description, status, issueType) ==
  [key |-> key, summary |-> summary, description |-> description,
   status |-> status, issueType |-> issueType]

TicketPool ==
  <<
     Ticket("EW-1",
            <<"[","M","y","D","e","b","i","t","]"," ","F","i","x"," ","l","o","g","i","n">>,
            <<>>,
            <<"O","p","e","n">>,
            <<"B","u","g">>),
     Ticket("EW-2",
            <<"F","i","x"," ","l","o","g","i","n"," ","t","i","m","e","o","u","t">>,
            <<>>,
            <<"I","n"," ","P","r","o","g","r","e","s","s">>,
            <<"T","a","s","k">>),
     Ticket("EW-3",
            <<"[","Z","i","r","c","o","n","]"," ","D","e","p","l","o","y"," ","s","e","r","v","i","c","e">>,
            <<>>,
            <<"D","o","n","e">>,
            <<"T","a","s","k">>),
     Ticket("EW-4",
            <<"L","o","g","i","n"," ","t","i","m","e","o","u","t"," ","s","t","o","r","y">>,
            <<>>,
            <<"O","p","e","n">>,
            <<"S","t","o","r","y">>),
     Ticket("EW-5",
            <<"[","A","c","q"," ","M","y","D","e","b","i","t","]"," ","l","o","g","i","n"," ","t","i","m","e","o","u","t">>,
            <<>>,
            <<"O","p","e","n">>,
            <<"T","a","s","k">>),
     Ticket("EW-6",
            <<"F","i","x"," ","t","i","m","e","o","u","t">>,
            <<"n","i","g","h","t","l","y"," ","j","o","b">>,
            <<"O","p","e","n">>,
            <<"B","u","g">>),
     Ticket("EW-7",
            <<"L","o","g","i","n">>,
            <<>>,
            <<"T","o"," ","D","o">>,
            <<"T","a","s","k">>),
     Ticket("EW-8",
            <<"T","i","m","e","o","u","t">>,
            <<"f","i","x">>,
            <<"O","p","e","n">>,
            <<"T","a","s","k">>) >>

\* the recognized lines of the todo documents: an incomplete line, one with
\* a project tag, and an indented completed line with two annotations
TodoDocument ==
  <<
     <<"-"," ","F","i","x"," ","l","o","g","i","n"," ","t","i","m","e","o","u","t">>,
     <<BallotBox," ","[","m","y","d","e","b","i","t","]"," ","F","i","x"," ","l","o","g","i","n"," ","t","i","m","e","o","u","t">>,
     <<" "," ",CheckMark," ","[","Z","i","r","c","o","n","]"," ","D","e","p","l","o","y"," ","s","e","r","v","i","c","e"," ","@","s","t","a","r","t","e","d","(","0","9",":","0","0",")"," ","@","l","a","s","t","e","d","(","1","h",")">> >>

\* ------------------------------------------------------ JavaScript values
\* A JSON value as far as Number(v) and truthiness see it.  n is the numeric
\* value of a number or of a numeric string (confidences in score units,
\* task indices in units of one); a boolean carries n = 1 for true.
JSNumber(n) == [t |-> "number", n |-> n, nan |-> FALSE]

JSNumericString(n) == [t |-> "string", n |-> n, nan |-> FALSE]

JSOtherString == [t |-> "string", n |-> 0, nan |-> TRUE]

JSBoolean(b) == [t |-> "boolean", n |-> IF b THEN 1 ELSE 0, nan |-> FALSE]

JSNull == [t |-> "null", n |-> 0, nan |-> FALSE]

JSUndefined == [t |-> "undefined", n |-> 0, nan |-> TRUE]

JSObject == [t |-> "object", n |-> 0, nan |-> TRUE]

NaN == [nan |-> TRUE, n |-> 0]

\* Number(v) for a confidence: a number or numeric string is its value,
\* true is 1, false and null are 0, everything else is NaN
ToNumber(v) ==
  CASE v.t = "number" -> [nan |-> FALSE, n |-> v.n]
    [] v.t = "string" -> IF v.nan THEN NaN ELSE [nan |-> FALSE, n |-> v.n]
    [] v.t = "boolean" -> [nan |-> FALSE, n |-> v.n * ScoreScale]
    [] v.t = "null" -> [nan |-> FALSE, n |-> 0]
    [] OTHER -> NaN

\* x || 0 for a number x
OrZero(x) == IF x.nan \/ x.n = 0 THEN 0 ELSE x.n

\* clampConfidence without the Math.min(1, ...) bound
clampConfidence_NoUpperBound(confidence) ==
  Max(0, OrZero(ToNumber(confidence)))

\* Math.max(0, Math.min(1, Number(confidence) || 0))
clampConfidence(confidence) ==
  Max(0, Min(ScoreScale, OrZero(ToNumber(confidence))))

\* (match.taskIndex || 1) - 1 for a taskIndex that is a number or missing
zeroBasedTaskIndex(taskIndex) ==
  (IF taskIndex.t = "number" /\ taskIndex.n # 0 THEN taskIndex.n ELSE 1) - 1

\* ------------------------------------------------------------ oracle reply
\* The reply text, as String.match(/\{[\s\S]*\}/) and JSON.parse see it:
\*   kind = "nojson"       no {...} span in the text
\*   kind = "unparseable"  JSON.parse throws on the span
\*   kind = "nomatches"    an object without a matches array
\*   kind = "matches"      an object whose matches is the array `matches`
\* An element of matches is null (isNull) or an object with an optional
\* taskIndex, an optional bestMatch {ticketKey, confidence} and
\* alternatives, which are missing, an array, or some other truthy value.
Reply(kind, matches) == [kind |-> kind, matches |-> matches]

Candidate(ticketKey, confidence) ==
  [isNull |-> FALSE, ticketKey |-> ticketKey, confidence |-> confidence]

NullCandidate == [isNull |-> TRUE, ticketKey |-> "", confidence |-> JSUndefined]

ReplyMatch(taskIndex, bestMatch, alternatives) ==
  [isNull |-> FALSE, taskIndex |-> taskIndex, bestMatch |-> bestMatch,
   altKind |-> "array", alternatives |-> alternatives]

ReplyMatchBadAlternatives(taskIndex, bestMatch) ==
  [isNull |-> FALSE, taskIndex |-> taskIndex, bestMatch |-> bestMatch,
   altKind |-> "other", alternatives |-> << >>]

NullReplyMatch ==
  [isNull |-> TRUE, taskIndex |-> JSUndefined, bestMatch |-> NullCandidate,
   altKind |-> "missing", alternatives |-> << >>]

\* -------------------------------------------------- parseBatchGeminiResponse
EmptyResult == [bestMatch |-> Null, alternatives |-> << >>]

\* Array(expectedTaskCount).fill(null).map(...): the catch block's value
emptyResults(expectedTaskCount) == [i \in 1..expectedTaskCount |-> EmptyResult]

\* the try block throws: no JSON, JSON.parse fails, no matches array, the
\* taskIndex read on a null element, or .filter on alternatives that are
\* not an array (reached only for an element whose index is in range)
parseThrows(reply, expectedTaskCount) ==
  \/ reply.kind \in {"nojson", "unparseable", "nomatches"}
  \/ \E i \in 1..Len(reply.matches) :
       \/ reply.matches[i].isNull
       \/ /\ reply.matches[i].altKind = "other"
          /\ zeroBasedTaskIndex(reply.matches[i].taskIndex) >= 0
          /\ zeroBasedTaskIndex(reply.matches[i].taskIndex) < expectedTaskCount

\* parsedMatch without .slice(0, 2) on the alternatives
parsedMatch_NoSlice(match) ==
  LET Keyed(alt) == ~alt.isNull /\ alt.ticketKey # ""
      kept == SelectSeq(match.alternatives, Keyed)
  IN  [bestMatch |->
         IF ~match.bestMatch.isNull /\ match.bestMatch.ticketKey # ""
         THEN Some([ticket |-> match.bestMatch.ticketKey,
                    score |-> clampConfidence(match.bestMatch.confidence)])
         ELSE Null,
       alternatives |->
         [a \in 1..Len(kept) |->
            [ticket |-> kept[a].ticketKey,
             score |-> clampConfidence(kept[a].confidence)]]]

\* the value stored for one element of parsed.matches
parsedMatch(match) ==
  LET Keyed(alt) == ~alt.isNull /\ alt.ticketKey # ""
      kept == slice(SelectSeq(match.alternatives, Keyed), 0, 2)
  IN  [bestMatch |->
         IF ~match.bestMatch.isNull /\ match.bestMatch.ticketKey # ""
         THEN Some([ticket |-> match.bestMatch.ticketKey,
                    score |-> clampConfidence(match.bestMatch.confidence)])
         ELSE Null,
       alternatives |->
         [a \in 1..Len(kept) |->
            [ticket |-> kept[a].ticketKey,
             score |-> clampConfidence(kept[a].confidence)]]]

\* the for loop over parsed.matches: an element whose zero-based index is
\* in range overwrites results[taskIndex]
RECURSIVE applyMatches(_, _, _)
applyMatches(results, matches, expectedTaskCount) ==
  IF matches = << >> THEN results
  ELSE LET match == Head(matches)
           taskIndex == zeroBasedTaskIndex(match.taskIndex)
           next == IF taskIndex >= 0 /\ taskIndex < expectedTaskCount
                   THEN [results EXCEPT ![taskIndex + 1] = parsedMatch(match)]
                   ELSE results
       IN  applyMatches(next, Tail(matches), expectedTaskCount)

parseBatchGeminiResponse(response, expectedTaskCount) ==
  IF parseThrows(response, expectedTaskCount) THEN emptyResults(expectedTaskCount)
  ELSE applyMatches(emptyResults(expectedTaskCount), response.matches,
                    expectedTaskCount)

\* ---------------------------------------------------- batchFindTicketMatches
\* What callGeminiWithBatchRetry hands back: the reply text of the first
\* successful attempt, or the last error once every model is exhausted.
OracleReply(reply) == [threw |-> FALSE, reply |-> reply]

OracleError == [threw |-> TRUE, reply |-> Reply("nojson", << >>)]

\* how a call completes: it returns a value or throws
Return(v) == [threw |-> FALSE, value |-> v]

Throw == [threw |-> TRUE, value |-> << >>]

\* the part of batchFindTicketMatches after the awaited oracle call: the
\* parsed reply, or the catch block's empty result per task
batchFindTicketMatches(tasksWithPreliminaryMatches, outcome) ==
  IF outcome.threw
  THEN Return([i \in 1..Len(tasksWithPreliminaryMatches) |-> EmptyResult])
  ELSE Return(parseBatchGeminiResponse(outcome.reply,
                                       Len(tasksWithPreliminaryMatches)))

\* -------------------------------------------------------- batchPredictTickets
\* Array.prototype.find on the ticket key
findTicket(tickets, key) ==
  IF \E i \in 1..Len(tickets) : tickets[i].key = key
  THEN Some(tickets[CHOOSE i \in 1..Len(tickets) :
                      /\ tickets[i].key = key
                      /\ \A j \in 1..(i - 1) : tickets[j].key # key])
  ELSE Null

\* preliminaryMatches scoring the task text without its project identifier
preliminaryMatches_PlainTask(tasks, tickets) ==
  [i \in 1..Len(tasks) |->
     [task |-> tasks[i].task,
      projectIdentifier |-> tasks[i].projectIdentifier,
      preliminaryMatches |->
        getTopKeywordMatches(tasks[i].task, tickets, PrelimLimit,
                             tasks[i].projectIdentifier)]]

\* Step 1: the preliminary keyword matches of every task
preliminaryMatches(tasks, tickets) ==
  [i \in 1..Len(tasks) |->
     LET taskItem == tasks[i]
         enhancedTask == IF taskItem.projectIdentifier # Null
                         THEN taskItem.projectIdentifier[1] \o <<" ">> \o taskItem.task
                         ELSE taskItem.task
     IN  [task |-> taskItem.task,
          projectIdentifier |-> taskItem.projectIdentifier,
          preliminaryMatches |->
            getTopKeywordMatches(enhancedTask, tickets, PrelimLimit,
                                 taskItem.projectIdentifier)]]

\* convertAIResult that keeps an alternative whose key resolves to no ticket
convertAIResult_KeepsUnknown(result, originalTask, tickets) ==
  IF result.bestMatch = Null THEN Null
  ELSE LET bestTicket == findTicket(tickets, result.bestMatch[1].ticket)
       IN  IF bestTicket = Null THEN Null
           ELSE Some([task |-> originalTask.task,
                      ticket |-> bestTicket[1],
                      score |-> result.bestMatch[1].score,
                      method |-> "gemini-ai-mega",
                      alternatives |->
                        [a \in 1..Len(result.alternatives) |->
                           LET found == findTicket(tickets, result.alternatives[a].ticket)
                           IN  [ticket |-> IF found = Null
                                           THEN [key |-> result.alternatives[a].ticket]
                                           ELSE found[1],
                                score |-> result.alternatives[a].score]]])

\* Step 2: one AI result converted to the result of its task
convertAIResult(result, originalTask, tickets) ==
  IF result.bestMatch = Null THEN Null
  ELSE LET bestTicket == findTicket(tickets, result.bestMatch[1].ticket)
           resolved == [a \in 1..Len(result.alternatives) |->
                          [found |-> findTicket(tickets, result.alternatives[a].ticket),
                           score |-> result.alternatives[a].score]]
           Found(alt) == alt.found # Null
           kept == SelectSeq(resolved, Found)
       IN  IF bestTicket = Null THEN Null
           ELSE Some([task |-> originalTask.task,
                      ticket |-> bestTicket[1],
                      score |-> result.bestMatch[1].score,
                      method |-> "gemini-ai-mega",
                      alternatives |->
                        [a \in 1..Len(kept) |->
                           [ticket |-> kept[a].found[1], score |-> kept[a].score]]])

convertAIResults(batchResults, tasksWithPreliminaryMatches, tickets) ==
  [i \in 1..Len(batchResults) |->
     IF i > Len(tasksWithPreliminaryMatches) THEN Null
     ELSE convertAIResult(batchResults[i], tasksWithPreliminaryMatches[i], tickets)]

\* Step 3: the keyword result of one task
\* keywordResult without the 0.2 floor
keywordResult_NoFloor(taskItem) ==
  IF taskItem.preliminaryMatches = << >>
  THEN Null
  ELSE LET bestKeywordMatch == taskItem.preliminaryMatches[1]
           rest == slice(taskItem.preliminaryMatches, 1, 3)
       IN  Some([task |-> taskItem.task,
                 ticket |-> bestKeywordMatch,
                 score |-> bestKeywordMatch.prelimScore,
                 method |-> "keyword-batch",
                 alternatives |->
                   [a \in 1..Len(rest) |->
                      [ticket |-> rest[a], score |-> rest[a].prelimScore]]])

keywordResult(taskItem) ==
  IF taskItem.preliminaryMatches = << >>
     \/ taskItem.preliminaryMatches[1].prelimScore < KeywordFloor
  THEN Null
  ELSE LET bestKeywordMatch == taskItem.preliminaryMatches[1]
           rest == slice(taskItem.preliminaryMatches, 1, 3)
       IN  Some([task |-> taskItem.task,
                 ticket |-> bestKeywordMatch,
                 score |-> bestKeywordMatch.prelimScore,
                 method |-> "keyword-batch",
                 alternatives |->
                   [a \in 1..Len(rest) |->
                      [ticket |-> rest[a], score |-> rest[a].prelimScore]]])

keywordResults(tasksWithPreliminaryMatches) ==
  [i \in 1..Len(tasksWithPreliminaryMatches) |->
     keywordResult(tasksWithPreliminaryMatches[i])]

\* ------------------------------------------------- processEntriesForMatching
\* processedEntry comparing the score with highConfidence by > instead of >=
processedEntry_StrictHigh(entry, result, thresholds) ==
  IF result = Null \/ result[1].score < thresholds.minimum
  THEN [originalTask |-> entry.task,
        projectIdentifier |-> entry.projectIdentifier,
        timeInfo |-> entry.timeInfo,
        matches |-> << >>,
        selectedTicket |-> Null,
        status |-> "unmapped",
        confidence |-> IF result = Null THEN Null ELSE Some(result[1].score)]
  ELSE LET r == result[1]
           matches == <<[ticket |-> r.ticket, score |-> r.score, method |-> r.method]>>
                        \o [a \in 1..Len(r.alternatives) |->
                              [ticket |-> r.alternatives[a].ticket,
                               score |-> r.alternatives[a].score,
                               method |-> "alternative"]]
           auto == r.score > thresholds.highConfidence
       IN  [originalTask |-> entry.task,
            projectIdentifier |-> entry.projectIdentifier,
            timeInfo |-> entry.timeInfo,
            matches |-> matches,
            selectedTicket |-> IF auto THEN Some(r.ticket) ELSE Null,
            status |-> IF auto THEN "auto-assigned"
                       ELSE IF r.score >= thresholds.choice THEN "needs-selection"
                       ELSE "unmapped",
            confidence |-> Some(r.score)]

\* processedEntry that selects the best ticket already at the choice threshold
processedEntry_SelectsOnChoice(entry, result, thresholds) ==
  IF result = Null \/ result[1].score < thresholds.minimum
  THEN [originalTask |-> entry.task,
        projectIdentifier |-> entry.projectIdentifier,
        timeInfo |-> entry.timeInfo,
        matches |-> << >>,
        selectedTicket |-> Null,
        status |-> "unmapped",
        confidence |-> IF result = Null THEN Null ELSE Some(result[1].score)]
  ELSE LET r == result[1]
           matches == <<[ticket |-> r.ticket, score |-> r.score, method |-> r.method]>>
                        \o [a \in 1..Len(r.alternatives) |->
                              [ticket |-> r.alternatives[a].ticket,
                               score |-> r.alternatives[a].score,
                               method |-> "alternative"]]
           auto == r.score >= thresholds.highConfidence
       IN  [originalTask |-> entry.task,
            projectIdentifier |-> entry.projectIdentifier,
            timeInfo |-> entry.timeInfo,
            matches |-> matches,
            selectedTicket |-> IF r.score >= thresholds.choice
                               THEN Some(r.ticket) ELSE Null,
            status |-> IF auto THEN "auto-assigned"
                       ELSE IF r.score >= thresholds.choice THEN "needs-selection"
                       ELSE "unmapped",
            confidence |-> Some(r.score)]

\* the ProcessedEntry of one entry (the generated id is left out)
processedEntry(entry, result, thresholds) ==
  IF result = Null \/ result[1].score < thresholds.minimum
  THEN [originalTask |-> entry.task,
        projectIdentifier |-> entry.projectIdentifier,
        timeInfo |-> entry.timeInfo,
        matches |-> << >>,
        selectedTicket |-> Null,
        status |-> "unmapped",
        confidence |-> IF result = Null THEN Null ELSE Some(result[1].score)]
  ELSE LET r == result[1]
           matches == <<[ticket |-> r.ticket, score |-> r.score, method |-> r.method]>>
                        \o [a \in 1..Len(r.alternatives) |->
                              [ticket |-> r.alternatives[a].ticket,
                               score |-> r.alternatives[a].score,
                               method |-> "alternative"]]
           auto == r.score >= thresholds.highConfidence
       IN  [originalTask |-> entry.task,
            projectIdentifier |-> entry.projectIdentifier,
            timeInfo |-> entry.timeInfo,
            matches |-> matches,
            selectedTicket |-> IF auto THEN Some(r.ticket) ELSE Null,
            status |-> IF auto THEN "auto-assigned"
                       ELSE IF r.score >= thresholds.choice THEN "needs-selection"
                       ELSE "unmapped",
            confidence |-> Some(r.score)]

processedEntries(entries, batchResults, thresholds) ==
  [i \in 1..Len(entries) |->
     processedEntry(entries[i],
                    IF i <= Len(batchResults) THEN batchResults[i] ELSE Null,
                    thresholds)]
\* batchPredictTickets without a try block around the oracle step, called
\* on a matcher that lets the oracle's last error escape
batchPredictTickets_Unguarded(tasksWithPreliminaryMatches, tickets, viaAI, outcome) ==
  IF viaAI
  THEN IF outcome.threw THEN Throw
       ELSE Return(convertAIResults(
                     parseBatchGeminiResponse(outcome.reply,
                                              Len(tasksWithPreliminaryMatches)),
                     tasksWithPreliminaryMatches, tickets))
  ELSE Return(keywordResults(tasksWithPreliminaryMatches))

\* batchPredictTickets that gives a task the oracle left without a match its
\* keyword result
batchPredictTickets_FillsGaps(tasksWithPreliminaryMatches, tickets, viaAI, outcome) ==
  IF viaAI
  THEN LET batchResults == batchFindTicketMatches(tasksWithPreliminaryMatches, outcome)
           converted == convertAIResults(batchResults.value,
                                         tasksWithPreliminaryMatches, tickets)
       IN  Return([i \in 1..Len(converted) |->
                     IF converted[i] = Null
                     THEN keywordResult(tasksWithPreliminaryMatches[i])
                     ELSE converted[i]])
  ELSE Return(keywordResults(tasksWithPreliminaryMatches))

\* batchPredictTickets from Step 2 on.  viaAI: useAI, AI_CONFIG.ENABLED and
\* getGeminiMatcher() returned a matcher.  An exception inside the try block
\* of Step 2 is caught and leads to Step 3.
batchPredictTickets(tasksWithPreliminaryMatches, tickets, viaAI, outcome) ==
  IF viaAI
  THEN LET batchResults == batchFindTicketMatches(tasksWithPreliminaryMatches, outcome)
       IN  IF batchResults.threw
           THEN Return(keywordResults(tasksWithPreliminaryMatches))
           ELSE Return(convertAIResults(batchResults.value,
                                        tasksWithPreliminaryMatches, tickets))
  ELSE Return(keywordResults(tasksWithPreliminaryMatches))

\* processEntriesForMatching from the return of batchPredictTickets on; it
\* has no try block of its own
processEntriesForMatching(todoEntries, prelim, tickets, thr, viaAI, outcome) ==
  LET batchResults == batchPredictTickets(prelim, tickets, viaAI, outcome)
  IN  IF batchResults.threw THEN Throw
      ELSE Return(processedEntries(todoEntries, batchResults.value, thr))

\* ---------------------------------------------------- generateTimesheetOutput
\* ` @name(value)`
annotation(name, value) == <<" ">> \o annotationOpen(name) \o value \o <<")">>

\* the truthiness of an optional string: set and not empty
isTruthy(value) == value # Null /\ value[1] # << >>

\* the annotations appended to a line, in the order of the three if statements
timeAnnotations(timeInfo) ==
  IF timeInfo = Null THEN << >>
  ELSE (IF isTruthy(timeInfo[1].started)
        THEN annotation("started", timeInfo[1].started[1]) ELSE << >>)
       \o (IF isTruthy(timeInfo[1].done)
           THEN annotation("done", timeInfo[1].done[1]) ELSE << >>)
       \o (IF isTruthy(timeInfo[1].lasted)
           THEN annotation("lasted", timeInfo[1].lasted[1]) ELSE << >>)

\* timesheetLine that tests the status before the selected ticket
timesheetLine_StatusFirst(entry) ==
  (IF entry.status = "skipped" THEN <<"[","S","K","I","P","P","E","D","]"," ">>
   ELSE IF entry.selectedTicket # Null
   THEN <<"[", entry.selectedTicket[1].key, "]", " ">>
   ELSE <<"[","U","N","M","A","P","P","E","D","]"," ">>)
  \o entry.originalTask \o timeAnnotations(entry.timeInfo)

\* the line of one entry; the ticket key is one element of the line
timesheetLine(entry) ==
  (IF entry.selectedTicket # Null
   THEN <<"[", entry.selectedTicket[1].key, "]", " ">>
   ELSE IF entry.status = "skipped" THEN <<"[","S","K","I","P","P","E","D","]"," ">>
   ELSE <<"[","U","N","M","A","P","P","E","D","]"," ">>)
  \o entry.originalTask \o timeAnnotations(entry.timeInfo)

generateTimesheetOutput(processedList) ==
  [i \in 1..Len(processedList) |-> timesheetLine(processedList[i])]

\* ------------------------------------------------------------ model cascade
modelsToTry == <<MODEL_NAME>> \o FALLBACK_MODELS

ErrorKinds == {"not-found", "quota", "timeout", "other"}

\* the catch block of callGeminiWithBatchRetry: model-not-found and quota
\* errors break out of the retry loop
breaksRetryLoop(kind) == kind \in {"not-found", "quota"}

\* ------------------------------------------------------------------- inputs
RECURSIVE SeqsUpTo(_, _)
SeqsUpTo(S, n) ==
  IF n = 0 THEN { << >> }
  ELSE LET shorter == SeqsUpTo(S, n - 1)
       IN  shorter \cup { Append(q, x) : q \in { r \in shorter : Len(r) = n - 1 }, x \in S }

\* lines.join("\n")
RECURSIVE joinLines(_)
joinLines(lines) ==
  IF lines = << >> THEN << >>
  ELSE IF Len(lines) = 1 THEN lines[1]
  ELSE lines[1] \o <<LineFeed>> \o joinLines(Tail(lines))

\* a line that parseTodoLine does not recognize
Heading == <<"T","o","d","a","y",":">>

\* every line followed by an empty line
RECURSIVE spaced(_)
spaced(lines) ==
  IF lines = << >> THEN << >>
  ELSE <<Head(lines), << >> >> \o spaced(Tail(lines))

\* the todo texts of a request: a heading and a contiguous run of at most
\* MaxTasks lines of TodoDocument, each followed by an empty line
Timesheets ==
  { joinLines(<<Heading>> \o spaced(SubSeq(TodoDocument, w[1], w[1] + w[2] - 1))) :
      w \in { v \in (1..Len(TodoDocument)) \X (0..MaxTasks) :
                v[1] + v[2] - 1 <= Len(TodoDocument) } }

AnnotationNames == {"started", "done", "lasted"}

annotationValue(name) ==
  CASE name = "started" -> <<"0","9",":","0","0">>
    [] name = "done" -> <<"1","0",":","0","0">>
    [] name = "lasted" -> <<"1","h">>

\* the annotations of a line: distinct names in any order
AnnotationOrders ==
  { q \in SeqsUpTo(AnnotationNames, Cardinality(AnnotationNames)) :
      \A i, j \in 1..Len(q) : i # j => q[i] # q[j] }

RECURSIVE annotated(_, _)
annotated(text, names) ==
  IF names = << >> THEN text
  ELSE annotated(text \o annotation(Head(names), annotationValue(Head(names))),
                 Tail(names))

\* completed lines with every choice and order of annotations
CompletedLines ==
  { annotated(text, q) :
      text \in { <<CheckMark," ","D","e","p","l","o","y"," ","s","e","r","v","i","c","e">>,
                 <<CheckMark," ","[","Z","i","r","c","o","n","]"," ","D","e","p","l","o","y"," ","s","e","r","v","i","c","e">> },
      q \in AnnotationOrders }

\* lines around the edges of the three regexes of parseTodoLine
OtherLines ==
  { <<"-"," ","[","m","y","d","e","b","i","t","]"," ","F","i","x"," ","l","o","g","i","n"," ","t","i","m","e","o","u","t">>,
    <<"-"," ","["," ","]"," ","F","i","x"," ","l","o","g","i","n">>,
    <<"-"," ","[","m","y","d","e","b","i","t","]">>,
    <<"-"," ","[","]"," ","F","i","x"," ","l","o","g","i","n">>,
    <<"-"," "," ","["," ","A","c","q"," ","M","y","D","e","b","i","t"," ","]"," "," "," ","D","e","p","l","o","y"," ","s","e","r","v","i","c","e"," "," ">>,
    <<BallotBox," ","[","m","y","d","e","b","i","t","]","[","z","i","r","c","o","n","]"," ","F","i","x">>,
    <<"-"," ","[","[","m","y","d","e","b","i","t","]","]"," ","F","i","x"," ","l","o","g","i","n">>,
    <<"F","i","x"," ","l","o","g","i","n"," ","t","i","m","e","o","u","t">>,
    <<>>,
    <<" "," "," ">>,
    <<"-">>,
    <<"-","F","i","x"," ","l","o","g","i","n">>,
    <<"*"," ","F","i","x"," ","l","o","g","i","n">>,
    <<CheckMark>>,
    <<CheckMark,"D","e","p","l","o","y"," ","s","e","r","v","i","c","e">>,
    <<"-"," ","F","i","x"," ","l","o","g","i","n"," ","@","d","o","n","e","(","1","0",":","0","0",")">>,
    <<BallotBox," ","F","i","x"," ","l","o","g","i","n"," ","@","s","t","a","r","t","e","d","(","0","9",":","0","0",")"," ","@","l","a","s","t","e","d","(","1","h",")">>,
    <<CheckMark," ","["," ","]"," ","D","e","p","l","o","y"," ","s","e","r","v","i","c","e"," ","@","d","o","n","e","(","1","0",":","0","0",")">>,
    <<CheckMark," ","[","Z","i","r","c","o","n","]"," ","@","d","o","n","e","(","1","0",":","0","0",")">>,
    <<"-"," ","F","i","x"," ","a"," ","b","u","g"," ","i","n"," ","m","y"," ","c","a","c","h","e">>,
    <<"-"," ","F","i","x"," ","b","u","g"," ","i","n"," ","m","y"," ","c","a","c","h","e">> }

\* the todo texts the parser is tried on: the request texts, every single
\* line, and the completed lines after an incomplete one
TodoTexts ==
  Timesheets \cup CompletedLines \cup OtherLines
  \cup { joinLines(<<TodoDocument[2], l>>) : l \in CompletedLines }

\* tickets next to those of TicketPool: other tags, an empty tag, excluded
\* status and issue type in other letter cases
ExtraTickets ==
  <<
     Ticket("EW-9",
            <<"[","Z","i","r","c","o","n","]"," ","F","i","x"," ","l","o","g","i","n"," ","t","i","m","e","o","u","t">>,
            <<>>,
            <<"O","p","e","n">>,
            <<"T","a","s","k">>),
     Ticket("EW-10",
            <<"["," ","]"," ","L","o","g","i","n"," ","t","i","m","e","o","u","t">>,
            <<>>,
            <<"O","p","e","n">>,
            <<"B","u","g">>),
     Ticket("EW-11",
            <<"[","M","y","D","e","b","i","t","]"," ","F","i","x"," ","l","o","g","i","n"," ","t","i","m","e","o","u","t">>,
            <<>>,
            <<"C","L","O","S","E","D">>,
            <<"T","a","s","k">>),
     Ticket("EW-12",
            <<"f","i","x"," ","l","o","g","i","n">>,
            <<"[","m","y","d","e","b","i","t","]"," ","t","i","m","e","o","u","t">>,
            <<"O","p","e","n">>,
            <<"E","P","I","C">>) >>

\* the ticket universes of the keyword runs
TicketUniverses ==
  { TicketPool, <<TicketPool[1]>>, TicketPool \o ExtraTickets, ExtraTickets }

\* the time-info objects of a request body: absent, or any of the three keys
TimeInfos ==
  { Null }
  \cup { Some([started |-> IF "started" \in present THEN Some(annotationValue("started")) ELSE Null,
              done |-> IF "done" \in present THEN Some(annotationValue("done")) ELSE Null,
              lasted |-> IF "lasted" \in present THEN Some(annotationValue("lasted")) ELSE Null]) :
           present \in SUBSET AnnotationNames }

\* ProcessedEntry values as the schema allows them
RenderEntries ==
  { [originalTask |-> <<"D","e","p","l","o","y"," ","s","e","r","v","i","c","e">>,
     projectIdentifier |-> Null,
     timeInfo |-> ti,
     matches |-> << >>,
     selectedTicket |-> sel,
     status |-> st,
     confidence |-> Null] :
      ti \in TimeInfos,
      sel \in {Null, Some(TicketPool[1])},
      st \in {"auto-assigned", "needs-selection", "skipped", "unmapped"} }

LaterEntries ==
  { e \in RenderEntries :
      /\ e.timeInfo = Null
      /\ (e.selectedTicket # Null) = (e.status = "auto-assigned")
      /\ e.status \in {"auto-assigned", "skipped"} }

\* the entries arrays of the generateTimesheetFile requests
RequestEntries ==
  { <<e>> \o later : e \in RenderEntries, later \in SeqsUpTo(LaterEntries, MaxTasks - 1) }

\* the last choice violates minimum <= choice, which nothing enforces
ThresholdChoices ==
  { DEFAULT_THRESHOLDS,
    [highConfidence |-> 30, choice |-> 30, minimum |-> 30],
    [highConfidence |-> 60, choice |-> 45, minimum |-> 0],
    [highConfidence |-> 54, choice |-> 30, minimum |-> 45] }

ConfidenceValues ==
  { JSNumber(-30), JSNumber(0), JSNumber(18), JSNumber(29), JSNumber(30),
    JSNumber(44), JSNumber(45), JSNumber(60), JSNumber(90),
    JSNumericString(40), JSOtherString, JSBoolean(TRUE), JSBoolean(FALSE),
    JSNull, JSUndefined, JSObject }

TaskIndexValues == {JSUndefined} \cup { JSNumber(k) : k \in (-1)..(MaxTasks + 1) }

AltPoolA ==
  << Candidate("EW-2", JSOtherString), Candidate("EW-5", JSNumber(90)),
     Candidate("EW-7", JSBoolean(TRUE)), Candidate("EW-6", JSNumber(30)),
     Candidate("ZZ-9", JSNumber(54)) >>

AltPoolB ==
  << NullCandidate, Candidate("ZZ-9", JSNumber(54)),
     Candidate("EW-6", JSNumericString(48)), Candidate("", JSNumber(50)),
     Candidate("EW-2", JSNull) >>

AltLists ==
  { SubSeq(pool, 1, n) : pool \in {AltPoolA, AltPoolB},
                         n \in 1..Min(MaxAlternatives, 5) }

\* the first element of the matches array
MainMatches ==
  { ReplyMatch(ti, b, << >>) :
      ti \in TaskIndexValues,
      b \in {NullCandidate, Candidate("EW-1", JSNumber(54))} }
  \cup { ReplyMatch(JSNumber(1), Candidate("EW-2", c), << >>) :
           c \in ConfidenceValues }
  \cup { ReplyMatch(JSNumber(1), Candidate(k, JSNumber(45)), << >>) :
           k \in {"ZZ-9", "", "EW-3"} }
  \cup { ReplyMatch(JSNumber(1), Candidate("EW-1", JSNumber(40)), al) :
           al \in AltLists }
  \cup { ReplyMatchBadAlternatives(JSNumber(1), Candidate("EW-1", JSNumber(54))),
         ReplyMatchBadAlternatives(JSNumber(-1), Candidate("EW-1", JSNumber(54))),
         NullReplyMatch }

\* the elements after the first
ExtraMatches ==
  { ReplyMatch(ti, Candidate("EW-6", JSNumber(36)), << >>) : ti \in TaskIndexValues }

Replies ==
  { Reply("nojson", << >>), Reply("unparseable", << >>),
    Reply("nomatches", << >>), Reply("matches", << >>) }
  \cup { Reply("matches", <<m>> \o extra) :
           m \in MainMatches, extra \in SeqsUpTo(ExtraMatches, MaxReplyEntries - 1) }

\* -------------------------------------------------------------------- state
VARIABLES
  timesheet,    \* the todo text of the request
  entries,      \* parseTodoContent(timesheet): the TodoEntry list
  allTickets,   \* the ticket universe
  thresholds,   \* the caller's thresholds
  useAI,        \* the caller's choice
  apiKey,       \* JIRA_TIMESHEET_CONFIG.GEMINI_API_KEY is set
  genAI,        \* module-level client (TRUE once created)
  model,        \* module-level model handle: the model name, "null" before
  geminiMatcher,\* the singleton returned by getGeminiMatcher (TRUE once set)
  pc,           \* "start", "attempt" (oracle call in flight), "backoff", "done"
  tasksWithPreliminaryMatches,
  modelIndex,   \* callGeminiWithBatchRetry's locals
  attempt,
  lastError,
  path,         \* how batchPredictTickets went: "none", "empty", "keyword",
                \* "no-matcher", "reply", "exhausted"
  reply,        \* the reply of the successful attempt, if any
  threw,        \* processEntriesForMatching threw
  processed,    \* the ProcessedEntry list it returned
  timesheetOutput, \* generateTimesheetOutput's lines
  calls,        \* per request slot: the locals of its oracle call
                \* (callGeminiWithBatchRetry or callGeminiWithRetry)
  observed,     \* per request slot: what its oracle call has done so far
  watched,      \* the model whose attempts are counted in observed
  worklogEntries, \* the WorkLogEntry list given to logMultipleWorkEntries
  logPc,        \* "start", "submitting" (logWorkToJira in flight), "done"
  success,      \* logMultipleWorkEntries's lists
  failed,
  submitted     \* the entries handed to logWorkToJira so far, in order

vars ==
  << timesheet, entries, allTickets, thresholds, useAI, apiKey, genAI, model,
     geminiMatcher, pc, tasksWithPreliminaryMatches, modelIndex, attempt,
     lastError, path, reply, threw, processed, timesheetOutput, calls,
     observed, watched, worklogEntries, logPc, success, failed, submitted >>

\* the state of the oracle calls made outside processEntriesForMatching's
\* single request, and of the worklog submission
oracleCalls == << calls, observed, watched >>

worklog == << worklogEntries, logPc, success, failed, submitted >>

inputs == << timesheet, allTickets, thresholds, useAI, apiKey >>

NoReply == Reply("nojson", << >>)

\* what a process holds before its first request, whatever the request
Fresh ==
  /\ entries = << >>
  /\ genAI = FALSE
  /\ model = "null"
  /\ geminiMatcher = FALSE
  /\ pc = "start"
  /\ tasksWithPreliminaryMatches = << >>
  /\ modelIndex = 0
  /\ attempt = 1
  /\ lastError = "null"
  /\ path = "none"
  /\ reply = NoReply
  /\ threw = FALSE
  /\ processed = << >>
  /\ timesheetOutput = << >>

\* no oracle call outside the request
NoOracleCalls ==
  /\ calls = << >>
  /\ observed = << >>
  /\ watched = "none"

\* logMultipleWorkEntries has not been called
NoWorklog ==
  /\ worklogEntries = << >>
  /\ logPc = "start"
  /\ success = << >>
  /\ failed = << >>
  /\ submitted = << >>

Init ==
  /\ timesheet \in Timesheets
  /\ allTickets = TicketPool
  /\ thresholds \in ThresholdChoices
  /\ useAI \in BOOLEAN
  /\ apiKey \in BOOLEAN
  /\ Fresh
  /\ NoOracleCalls
  /\ NoWorklog

\* processEntriesForMatching returns (or throws) and its entries are
\* rendered: the locals of the oracle call are gone, the module-level state
\* stays
Finish(todoEntries, prelim, viaAI, how, outcome) ==
  LET completion == processEntriesForMatching(todoEntries, prelim, allTickets,
                                              thresholds, viaAI, outcome)
  IN  /\ pc' = "done"
      /\ path' = how
      /\ reply' = outcome.reply
      /\ threw' = completion.threw
      /\ processed' = completion.value
      /\ timesheetOutput' = IF completion.threw THEN << >>
                            ELSE generateTimesheetOutput(completion.value)
      /\ tasksWithPreliminaryMatches' = prelim
      /\ modelIndex' = 0
      /\ attempt' = 1
      /\ lastError' = "null"

\* the todo text is parsed and processEntriesForMatching is called on the
\* entries; it runs to its first suspension: to the end on the keyword path,
\* to the first oracle attempt otherwise
Begin ==
  /\ pc = "start"
  /\ UNCHANGED << oracleCalls, worklog >>
  /\ UNCHANGED inputs
  /\ entries' = parseTodoContent(timesheet)
  /\ IF Len(entries') = 0
     THEN /\ Finish(entries', << >>, FALSE, "empty", OracleError)
          /\ UNCHANGED << genAI, model, geminiMatcher >>
     ELSE LET prelim == preliminaryMatches(entries', allTickets)
          IN  IF ~useAI
              THEN /\ Finish(entries', prelim, FALSE, "keyword", OracleError)
                   /\ UNCHANGED << genAI, model, geminiMatcher >>
              ELSE IF ~geminiMatcher /\ (~genAI \/ model = "null") /\ ~apiKey
              THEN \* initializeGemini throws, getGeminiMatcher returns null
                   /\ Finish(entries', prelim, FALSE, "no-matcher", OracleError)
                   /\ UNCHANGED << genAI, model, geminiMatcher >>
              ELSE /\ genAI' = TRUE
                   /\ model' = IF ~genAI \/ model = "null" THEN modelsToTry[1] ELSE model
                   /\ geminiMatcher' = TRUE
                   /\ tasksWithPreliminaryMatches' = prelim
                   /\ pc' = "attempt"
                   /\ modelIndex' = 0
                   /\ attempt' = 1
                   /\ lastError' = "null"
                   /\ UNCHANGED << path, reply, threw, processed, timesheetOutput >>

\* the attempt in flight resolves with the reply text
AttemptSucceeds ==
  /\ pc = "attempt"
  /\ UNCHANGED << oracleCalls, worklog >>
  /\ \E r \in Replies :
       Finish(entries, tasksWithPreliminaryMatches, TRUE, "reply", OracleReply(r))
  /\ UNCHANGED << inputs, entries, genAI, model, geminiMatcher >>

\* the attempt in flight fails (an API error, the 90 s timeout, a reply
\* without text): retry after a backoff, advance to the next model, or give
\* up when no model is left
AttemptFails ==
  /\ pc = "attempt"
  /\ UNCHANGED << oracleCalls, worklog >>
  /\ \E kind \in ErrorKinds :
       IF ~breaksRetryLoop(kind) /\ attempt < MAX_RETRIES
       THEN /\ pc' = "backoff"
            /\ lastError' = kind
            /\ UNCHANGED << inputs, entries, genAI, model, geminiMatcher,
                            tasksWithPreliminaryMatches, modelIndex, attempt,
                            path, reply, threw, processed, timesheetOutput >>
       ELSE IF modelIndex + 1 < Len(modelsToTry)
       THEN /\ modelIndex' = modelIndex + 1
            /\ attempt' = 1
            /\ lastError' = kind
            /\ model' = modelsToTry[modelIndex + 2]
            /\ pc' = "attempt"
            /\ UNCHANGED << inputs, entries, genAI, geminiMatcher,
                            tasksWithPreliminaryMatches, path, reply, threw,
                            processed, timesheetOutput >>
       ELSE /\ Finish(entries, tasksWithPreliminaryMatches, TRUE, "exhausted",
                      OracleError)
            /\ UNCHANGED << inputs, entries, genAI, model, geminiMatcher >>

\* the backoff timer fires and the next attempt at the same model starts
BackoffElapses ==
  /\ pc = "backoff"
  /\ UNCHANGED << oracleCalls, worklog >>
  /\ attempt' = attempt + 1
  /\ model' = IF modelIndex > 0 THEN modelsToTry[modelIndex + 1] ELSE model
  /\ pc' = "attempt"
  /\ UNCHANGED << inputs, entries, genAI, geminiMatcher,
                  tasksWithPreliminaryMatches, modelIndex, lastError, path,
                  reply, threw, processed, timesheetOutput >>

Next == Begin \/ AttemptSucceeds \/ AttemptFails \/ BackoffElapses

Spec == Init /\ [][Next]_vars

\* ------------------------------------------------- keyword runs on any text
\* requests with useAI = false over the wider texts and ticket universes
KeywordInit ==
  /\ timesheet \in TodoTexts
  /\ allTickets \in TicketUniverses
  /\ thresholds \in ThresholdChoices
  /\ useAI = FALSE
  /\ apiKey = FALSE
  /\ Fresh
  /\ NoOracleCalls
  /\ NoWorklog

KeywordNext == Begin

KeywordSpec == KeywordInit /\ [][KeywordNext]_vars

\* ------------------------------------------------------ generateTimesheetFile
\* the handler renders the entries of the request body
GenerateTimesheetFile ==
  /\ pc = "start"
  /\ UNCHANGED << oracleCalls, worklog >>
  /\ \E requestEntries \in RequestEntries :
       /\ processed' = requestEntries
       /\ timesheetOutput' = generateTimesheetOutput(requestEntries)
  /\ pc' = "done"
  /\ UNCHANGED << inputs, entries, genAI, model, geminiMatcher,
                  tasksWithPreliminaryMatches, modelIndex, attempt, lastError,
                  path, reply, threw >>

RenderInit ==
  /\ timesheet = << >>
  /\ allTickets = TicketPool
  /\ thresholds = DEFAULT_THRESHOLDS
  /\ useAI = FALSE
  /\ apiKey = FALSE
  /\ Fresh
  /\ NoOracleCalls
  /\ NoWorklog

RenderNext == GenerateTimesheetFile

RenderSpec == RenderInit /\ [][RenderNext]_vars

\* ------------------------------------------------------------- oracle calls
\* the calls of callGeminiWithBatchRetry and callGeminiWithRetry that one
\* process makes, one after another in a request slot and, with two slots,
\* interleaved at their awaits

MaxCalls == 2

Models == { modelsToTry[i] : i \in 1..Len(modelsToTry) }

CascadeKinds == {"batch", "single"}

\* the catch block of callGeminiWithRetry: only model-not-found breaks out
\* of the retry loop
breaksSingleRetryLoop(kind) == kind = "not-found"

breaks(cascade, kind) ==
  IF cascade = "batch" THEN breaksRetryLoop(kind) ELSE breaksSingleRetryLoop(kind)

\* a slot in which no call has started; sentTo is the model that received
\* the latest attempt, ordinal counts the calls of the slot
NoCall ==
  [cascade |-> "batch", pc |-> "idle", modelIndex |-> 0, attempt |-> 1,
   lastError |-> "null", sentTo |-> "null", ordinal |-> 0]

\* afterFailure that leaves the model at the first failure of any kind
afterFailure_AdvancesAtOnce(cascade, c, kind) ==
  IF c.modelIndex + 1 < Len(modelsToTry)
  THEN [c EXCEPT !.pc = "attempt", !.modelIndex = c.modelIndex + 1,
                 !.attempt = 1, !.lastError = kind,
                 !.sentTo = modelsToTry[c.modelIndex + 2]]
  ELSE [c EXCEPT !.pc = "threw", !.lastError = kind]

\* the catch block and the loop heads after a failed attempt: wait for the
\* backoff, start the first attempt at the next model (fetched by name), or
\* throw the last error when no model is left
afterFailure(cascade, c, kind) ==
  IF ~breaks(cascade, kind) /\ c.attempt < MAX_RETRIES
  THEN [c EXCEPT !.pc = "backoff", !.lastError = kind]
  ELSE IF c.modelIndex + 1 < Len(modelsToTry)
  THEN [c EXCEPT !.pc = "attempt", !.modelIndex = c.modelIndex + 1,
                 !.attempt = 1, !.lastError = kind,
                 !.sentTo = modelsToTry[c.modelIndex + 2]]
  ELSE [c EXCEPT !.pc = "threw", !.lastError = kind]

\* the model handle that the next attempt at the given position uses: the
\* handle is fetched by name only at positions after the first
handleFor(position, current) ==
  IF position > 0 THEN modelsToTry[position + 1] ELSE current

NothingObserved ==
  [made |-> 0, onWatched |-> 0, leftWatched |-> FALSE, watchedBroke |-> FALSE]

\* model.generateContent is called on the handle of model m (nothing is
\* recorded when no model is watched)
attemptSent(o, m) ==
  IF watched = "none" THEN o ELSE
  [o EXCEPT !.made = o.made + 1,
            !.onWatched = IF m = watched THEN o.onWatched + 1 ELSE o.onWatched,
            !.leftWatched = o.leftWatched \/ (o.onWatched > 0 /\ m # watched)]

\* the attempt sent to model m failed with an error of the given kind
attemptFailed(o, m, kind) ==
  [o EXCEPT !.watchedBroke =
              o.watchedBroke \/ (m = watched /\ kind \in {"not-found", "quota"})]

pipeline ==
  << timesheet, entries, allTickets, thresholds, useAI, apiKey, geminiMatcher,
     pc, tasksWithPreliminaryMatches, modelIndex, attempt, lastError, path,
     reply, threw, processed, timesheetOutput >>

\* batchFindTicketMatches or findBestTicketMatch makes sure the client is
\* initialized and calls its cascade, which runs to its first await: the
\* first attempt at position 0, on the module-level handle as it stands
CallStarts(r) ==
  /\ calls[r].pc \in {"idle", "returned", "threw"}
  /\ calls[r].ordinal < MaxCalls
  /\ apiKey \/ (genAI /\ model # "null")
  /\ \E cascade \in CascadeKinds :
       LET handle == IF ~genAI \/ model = "null" THEN modelsToTry[1] ELSE model
       IN  /\ genAI' = TRUE
           /\ model' = handle
           /\ calls' = [calls EXCEPT ![r] =
                          [cascade |-> cascade, pc |-> "attempt", modelIndex |-> 0,
                           attempt |-> 1, lastError |-> "null", sentTo |-> handle,
                           ordinal |-> calls[r].ordinal + 1]]
           /\ observed' = [observed EXCEPT ![r] = attemptSent(NothingObserved, handle)]
  /\ UNCHANGED << pipeline, watched, worklog >>

\* the attempt in flight resolves: the call returns the reply text
CallSucceeds(r) ==
  /\ calls[r].pc = "attempt"
  /\ calls' = [calls EXCEPT ![r].pc = "returned"]
  /\ UNCHANGED << pipeline, genAI, model, observed, watched, worklog >>

\* the attempt in flight fails (API error, the race with the timeout, a
\* reply without text)
CallFails(r) ==
  /\ calls[r].pc = "attempt"
  /\ \E kind \in ErrorKinds :
       LET after == afterFailure(calls[r].cascade, calls[r], kind)
           failure == attemptFailed(observed[r], calls[r].sentTo, kind)
       IN  /\ calls' = [calls EXCEPT ![r] = after]
           /\ model' = IF after.pc = "attempt" THEN after.sentTo ELSE model
           /\ observed' = [observed EXCEPT ![r] =
                             IF after.pc = "attempt"
                             THEN attemptSent(failure, after.sentTo)
                             ELSE failure]
  /\ UNCHANGED << pipeline, genAI, watched, worklog >>

\* the backoff timer fires and the next attempt at the same position starts
WaitElapses(r) ==
  /\ calls[r].pc = "backoff"
  /\ LET handle == handleFor(calls[r].modelIndex, model)
     IN  /\ model' = handle
         /\ calls' = [calls EXCEPT ![r].pc = "attempt",
                                   ![r].attempt = calls[r].attempt + 1,
                                   ![r].sentTo = handle]
         /\ observed' = [observed EXCEPT ![r] = attemptSent(observed[r], handle)]
  /\ UNCHANGED << pipeline, genAI, watched, worklog >>

\* a process with the API key set that has served no request yet
CascadeStart ==
  /\ timesheet = << >>
  /\ allTickets = TicketPool
  /\ thresholds = DEFAULT_THRESHOLDS
  /\ useAI = TRUE
  /\ apiKey = TRUE
  /\ Fresh
  /\ NoWorklog

\* one request at a time
CascadeInit ==
  /\ CascadeStart
  /\ calls = [r \in {1} |-> NoCall]
  /\ observed = [r \in {1} |-> NothingObserved]
  /\ watched \in Models

CascadeNext ==
  \E r \in DOMAIN calls :
    CallStarts(r) \/ CallSucceeds(r) \/ CallFails(r) \/ WaitElapses(r)

CascadeSpec == CascadeInit /\ [][CascadeNext]_vars

\* two requests whose calls interleave, each with one call to make
ConcurrentInit ==
  /\ CascadeStart
  /\ calls = [r \in {1, 2} |-> [NoCall EXCEPT !.ordinal = MaxCalls - 1]]
  /\ observed = [r \in {1, 2} |-> NothingObserved]
  /\ watched = "none"

ConcurrentSpec == ConcurrentInit /\ [][CascadeNext]_vars

\* --------------------------------------------------- logMultipleWorkEntries
MaxWorklogs == 3

\* WorkLogEntry as far as the submission loop looks at it
WorkLogEntry(issueKey, comment) == [issueKey |-> issueKey, comment |-> comment]

WorkLogPool ==
  { WorkLogEntry("EW-1", <<"F","i","x"," ","l","o","g","i","n">>),
    WorkLogEntry("EW-2", <<"D","e","p","l","o","y"," ","s","e","r","v","i","c","e">>) }

WorklogLists == SeqsUpTo(WorkLogPool, MaxWorklogs)

\* the message property of the error that logWorkEntry rethrows
ErrorMessages == { << >>, <<"H","T","T","P"," ","4","0","0">> }

\* error.message || "Unknown error"
errorText(message) == IF message = << >> THEN <<"U","n","k","n","o","w","n"," ","e","r","r","o","r">> ELSE message

\* failed.push that keeps only the latest failure
pushFailed_Replaces(list, entry, message) ==
  << [entry |-> entry, error |-> errorText(message)] >>

\* failed.push({ entry, error })
pushFailed(list, entry, message) ==
  Append(list, [entry |-> entry, error |-> errorText(message)])

\* the loop head: the next entry is handed to logWorkToJira, or the loop
\* ends and the two lists are returned
nextSubmission ==
  IF Len(submitted) < Len(worklogEntries)
  THEN /\ submitted' = Append(submitted, worklogEntries[Len(submitted) + 1])
       /\ logPc' = "submitting"
  ELSE /\ submitted' = submitted
       /\ logPc' = "done"

LogMultipleWorkEntries ==
  /\ logPc = "start"
  /\ nextSubmission
  /\ UNCHANGED << pipeline, genAI, model, oracleCalls, worklogEntries, success, failed >>

\* logWorkToJira resolves: the entry is pushed to success
SubmissionSucceeds ==
  /\ logPc = "submitting"
  /\ success' = Append(success, submitted[Len(submitted)])
  /\ nextSubmission
  /\ UNCHANGED << pipeline, genAI, model, oracleCalls, worklogEntries, failed >>

\* logWorkToJira rejects: the entry is pushed to failed with the error text
SubmissionFails ==
  /\ logPc = "submitting"
  /\ \E message \in ErrorMessages :
       failed' = pushFailed(failed, submitted[Len(submitted)], message)
  /\ nextSubmission
  /\ UNCHANGED << pipeline, genAI, model, oracleCalls, worklogEntries, success >>

LoggingInit ==
  /\ timesheet = << >>
  /\ allTickets = TicketPool
  /\ thresholds = DEFAULT_THRESHOLDS
  /\ useAI = FALSE
  /\ apiKey = FALSE
  /\ Fresh
  /\ NoOracleCalls
  /\ worklogEntries \in WorklogLists
  /\ logPc = "start"
  /\ success = << >>
  /\ failed = << >>
  /\ submitted = << >>

LoggingNext == LogMultipleWorkEntries \/ SubmissionSucceeds \/ SubmissionFails

LoggingSpec == LoggingInit /\ [][LoggingNext]_vars

\* ------------------------------------------------------------------- claims
Done == pc = "done"

UniverseKeys == { allTickets[i].key : i \in 1..Len(allTickets) }

Statuses == { processed[i].status : i \in 1..Len(processed) }

\* what the same call returns with useAI = false
KeywordOnlyResult ==
  processEntriesForMatching(entries, tasksWithPreliminaryMatches, allTickets,
                            thresholds, FALSE, OracleError).value

ValidThresholds ==
  /\ 0 <= thresholds.minimum
  /\ thresholds.minimum <= thresholds.choice
  /\ thresholds.choice <= thresholds.highConfidence
  /\ thresholds.highConfidence <= ScoreScale

\* the reply was parsed: a matches array without a null element and without
\* a reached non-array alternatives value
ReplyParsed ==
  /\ path = "reply"
  /\ reply.kind = "matches"
  /\ ~parseThrows(reply, Len(entries))

\* the taskIndex of a reply element names a task of the batch
NamesTask(match, i) ==
  ~match.isNull /\ match.taskIndex.t = "number" /\ match.taskIndex.n = i

InRange(match) == \E i \in 1..Len(entries) : NamesTask(match, i)

\* the reply is one element that names task i
SingleReplyFor(i) ==
  /\ ReplyParsed
  /\ Len(reply.matches) = 1
  /\ NamesTask(reply.matches[1], i)

\* C1: if every oracle call throws, the call with useAI = true returns the
\* results of the call with useAI = false (status, matches, selected ticket
\* and confidence of every entry).
C1_FallbackGuarantee ==
  (Done /\ path = "exhausted") => processed = KeywordOnlyResult

\* C2: no failure on the oracle path makes processEntriesForMatching throw;
\* it returns one ProcessedEntry per input entry, in input order, each with
\* one of the three statuses the classifier assigns.
C2_NeverThrows ==
  Done =>
    /\ ~threw
    /\ Len(processed) = Len(entries)
    /\ \A i \in 1..Len(entries) :
         /\ processed[i].originalTask = entries[i].task
         /\ processed[i].status \in {"unmapped", "needs-selection", "auto-assigned"}

C2_Witness ==
  /\ Done
  /\ path = "exhausted"
  /\ Len(entries) >= 2
  /\ Statuses = {"unmapped"}

\* the status the claim assigns to a best score s (Null when absent)
ClaimedStatus(s, thr) ==
  IF s = Null \/ s[1] < thr.choice THEN "unmapped"
  ELSE IF s[1] < thr.highConfidence THEN "needs-selection"
  ELSE "auto-assigned"

C4_SelectedIffAutoAssigned ==
  Done =>
    \A i \in 1..Len(processed) :
      /\ (processed[i].selectedTicket # Null) <=> (processed[i].status = "auto-assigned")
      /\ processed[i].status = "auto-assigned" =>
           /\ processed[i].matches # << >>
           /\ processed[i].selectedTicket = Some(processed[i].matches[1].ticket)
      /\ processed[i].status # "skipped"

C4_Witness ==
  /\ Done
  /\ Len(processed) >= 2
  /\ processed[1].status = "auto-assigned"
  /\ processed[1].selectedTicket # Null
  /\ processed[2].status = "needs-selection"
  /\ processed[2].matches # << >>

\* every score of every entry lies in [0, 1]
ScoresInUnitInterval ==
  \A i \in 1..Len(processed) :
    /\ processed[i].confidence # Null =>
         processed[i].confidence[1] \in 0..ScoreScale
    /\ \A m \in 1..Len(processed[i].matches) :
         processed[i].matches[m].score \in 0..ScoreScale

IsNumeric(c) == c.t = "number" \/ (c.t = "string" /\ ~c.nan)

\* the score the claim gives a confidence: a numeric one cut to [0, 1],
\* any other one 0
ClaimedScore(c) ==
  IF IsNumeric(c) THEN Max(0, Min(ScoreScale, c.n)) ELSE 0

\* the same, except that the JSON value true counts as 1
CoercedScore(c) ==
  IF c.t = "boolean" /\ c.n = 1 THEN ScoreScale ELSE ClaimedScore(c)

\* the alternatives of the only reply element are all objects with a key of
\* the universe, so that the a-th match after the best one is the a-th of them
AlternativesResolve(match) ==
  \A a \in 1..Len(match.alternatives) :
    /\ ~match.alternatives[a].isNull
    /\ match.alternatives[a].ticketKey \in UniverseKeys

\* the scores of task i are those that the claim (coerced = FALSE) or the
\* amended claim (coerced = TRUE) gives the confidences of the one reply
\* element that names the task
ScoresFollow(i, coerced) ==
  LET match == reply.matches[1]
      Score(c) == IF coerced THEN CoercedScore(c) ELSE ClaimedScore(c)
  IN  (~match.bestMatch.isNull /\ match.bestMatch.ticketKey \in UniverseKeys) =>
        /\ processed[i].confidence = Some(Score(match.bestMatch.confidence))
        /\ AlternativesResolve(match) =>
             \A m \in 2..Len(processed[i].matches) :
               processed[i].matches[m].score = Score(match.alternatives[m - 1].confidence)

\* C5 as stated: every score on the oracle path is in [0, 1]; a confidence
\* above 1 becomes 1, one below 0 becomes 0, a non-numeric or missing one 0.
C5_ClampedNonNumericZero ==
  (Done /\ path = "reply") =>
    /\ ScoresInUnitInterval
    /\ \A i \in 1..Len(entries) : SingleReplyFor(i) => ScoresFollow(i, FALSE)

\* C5 amended: every score on the oracle path is in [0, 1]; a confidence is
\* converted with Number(): a number or numeric string above 1 becomes 1, one
\* below 0 becomes 0, true becomes 1, and false, null, a missing value and
\* any value Number() turns into NaN become 0.
C5_ClampedAfterCoercion ==
  (Done /\ path = "reply") =>
    /\ ScoresInUnitInterval
    /\ \A i \in 1..Len(entries) : SingleReplyFor(i) => ScoresFollow(i, TRUE)

C5_Witness ==
  /\ Done
  /\ SingleReplyFor(1)
  /\ reply.matches[1].bestMatch.ticketKey \in UniverseKeys
  /\ reply.matches[1].bestMatch.confidence = JSNumber(90)
  /\ processed[1].confidence = Some(ScoreScale)

\* C6: a reply without a JSON object, an unparseable one and one without a
\* matches array leave every task with its keyword result, as a failed
\* oracle call is meant to.
C6_MalformedReplyFallsBack ==
  (Done /\ path = "reply" /\ reply.kind \in {"nojson", "unparseable", "nomatches"}) =>
    processed = KeywordOnlyResult

\* the positions of the first two alternatives that are objects with a key
FirstTwoKeyed(match) ==
  LET keyed == { a \in 1..Len(match.alternatives) :
                   ~match.alternatives[a].isNull /\ match.alternatives[a].ticketKey # "" }
  IN  { a \in keyed : Cardinality({ b \in keyed : b < a }) < 2 }

\* C7: a key of the reply that names no ticket of the universe gives no match
\* for its slot and no error: an unknown best key leaves the task without
\* matches, an unknown alternative key is dropped while the best match and
\* the other alternatives stay, and every ticket of a result is a record of
\* the universe.
C7_UnknownKeyIsNoMatch ==
  (Done /\ path = "reply") =>
    /\ ~threw
    /\ \A i \in 1..Len(processed) :
         /\ \A m \in 1..Len(processed[i].matches) :
              \E k \in 1..Len(allTickets) : processed[i].matches[m].ticket = allTickets[k]
         /\ SingleReplyFor(i) =>
              LET match == reply.matches[1]
                  known == { a \in FirstTwoKeyed(match) :
                               match.alternatives[a].ticketKey \in UniverseKeys }
              IN  IF match.bestMatch.isNull \/ match.bestMatch.ticketKey \notin UniverseKeys
                  THEN /\ processed[i].matches = << >>
                       /\ processed[i].confidence = Null
                       /\ processed[i].status = "unmapped"
                  ELSE /\ processed[i].confidence # Null
                       /\ processed[i].matches # << >> =>
                            /\ processed[i].matches[1].ticket.key = match.bestMatch.ticketKey
                            /\ Len(processed[i].matches) = 1 + Cardinality(known)
                            /\ { processed[i].matches[m].ticket.key :
                                   m \in 2..Len(processed[i].matches) }
                                 = { match.alternatives[a].ticketKey : a \in known }

C7_Witness ==
  /\ Done
  /\ SingleReplyFor(1)
  /\ reply.matches[1].bestMatch.ticketKey \in UniverseKeys
  /\ \E a \in FirstTwoKeyed(reply.matches[1]) :
       reply.matches[1].alternatives[a].ticketKey \notin UniverseKeys
  /\ Len(processed[1].matches) = 2

\* the reply without the elements whose taskIndex is outside 1..N
WithoutOutOfRange ==
  LET Named(match) == InRange(match)
  IN  Reply(reply.kind, SelectSeq(reply.matches, Named))

\* C8: a reply element whose taskIndex is outside 1..N (zero, negative,
\* greater than N or missing) changes the result of no task: the results are
\* those of the reply without such elements.
C8_OutOfRangeIgnored ==
  (Done /\ ReplyParsed) =>
    processed = processEntriesForMatching(entries, tasksWithPreliminaryMatches,
                                          allTickets, thresholds, TRUE,
                                          OracleReply(WithoutOutOfRange)).value

\* C9: a task that no element of a parsed reply names ends without a best
\* match and without alternatives, with status unmapped.
C9_UnreferencedTaskUnmapped ==
  (Done /\ ReplyParsed) =>
    \A i \in 1..Len(entries) :
      (\A m \in 1..Len(reply.matches) : ~NamesTask(reply.matches[m], i)) =>
        /\ processed[i].matches = << >>
        /\ processed[i].confidence = Null
        /\ processed[i].selectedTicket = Null
        /\ processed[i].status = "unmapped"

TimesheetLines ==
  UNION { { splitLines(t)[i] : i \in 1..Len(splitLines(t)) } : t \in Timesheets }

ParsedLines == [l \in TimesheetLines |-> parseTodoLine(l)]

\* the lines of the todo text that parseTodoLine recognizes, in text order
RecognizedLines ==
  LET Recognized(l) == ParsedLines[l] # Null
  IN  SelectSeq(splitLines(timesheet), Recognized)

\* a rendered line after its "[...] " tag
afterTag(line) == SubSeq(line, indexOf(line, "]", 1) + 2, Len(line))

\* C11: rendering the processed entries of a parsed todo text gives exactly
\* one line per recognized line of the text, in the order of the text, and
\* the i-th line carries the task text of the i-th recognized line; on the
\* keyword path and on the oracle path, whatever the oracle replies.
C11_RoundTrip ==
  Done =>
    /\ Len(timesheetOutput) = Len(RecognizedLines)
    /\ \A i \in 1..Len(RecognizedLines) :
         startsWith(afterTag(timesheetOutput[i]),
                    ParsedLines[RecognizedLines[i]][1].task)

C11_Witness ==
  /\ Done
  /\ path = "reply"
  /\ Len(RecognizedLines) = 2
  /\ Len(splitLines(timesheet)) > 2
  /\ processed[1].status = "auto-assigned"
  /\ processed[2].timeInfo # Null
  /\ timesheetOutput[1] # timesheetOutput[2]

\* the scenario of C12: the universe is EW-1 alone, the only entry is the
\* task "Fix login timeout" with project identifier "mydebit", the thresholds
\* are the default ones and the matching is by keywords
ScenarioC12 ==
  /\ Done
  /\ path = "keyword"
  /\ allTickets = <<TicketPool[1]>>
  /\ thresholds = DEFAULT_THRESHOLDS
  /\ Len(entries) = 1
  /\ entries[1].task = <<"F","i","x"," ","l","o","g","i","n"," ","t","i","m","e","o","u","t">>
  /\ entries[1].projectIdentifier = Some(<<"m","y","d","e","b","i","t">>)

\* C12 as stated: in the scenario the lexical score is 1/3 (one token of
\* three) and the entry is unmapped.
C12_ScoreOneThird ==
  ScenarioC12 =>
    /\ processed[1].confidence = Some(ScoreScale \div 3)
    /\ processed[1].status = "unmapped"

\* C12 amended: in the scenario the scored text is the task prefixed with
\* its project identifier, "mydebit Fix login timeout"; three of its four
\* tokens ("mydebit", "fix", "login") occur in the ticket text, the score is
\* 3/4, which reaches highConfidence, and the entry is auto-assigned to EW-1.
C12_ScoreThreeQuarters ==
  ScenarioC12 =>
    /\ processed[1].confidence = Some((3 * ScoreScale) \div 4)
    /\ processed[1].status = "auto-assigned"
    /\ processed[1].selectedTicket # Null
    /\ processed[1].selectedTicket[1].key = "EW-1"

C12_Witness ==
  /\ ScenarioC12
  /\ Len(processed) = 1
  /\ processed[1].matches # << >>
  /\ processed[1].matches[1].method = "keyword-batch"

\* the exclusion sets as the claim lists them
ClaimedExcludedTypes ==
  { <<"s","t","o","r","y">>,
    <<"e","p","i","c">>,
    <<"f","e","a","t","u","r","e"," ","s","t","o","r","y">> }

ClaimedExcludedStatuses ==
  { <<"d","o","n","e">>,
    <<"d","e","p","l","o","y","e","d">>,
    <<"c","l","o","s","e","d">>,
    <<"c","a","n","c","e","l","l","e","d">>,
    <<"r","o","l","l","b","a","c","k">>,
    <<"r","e","a","d","y"," ","t","o"," ","d","e","p","l","o","y">> }

ClaimedExcluded(ticket) ==
  \/ toLowerCase(ticket.issueType) \in ClaimedExcludedTypes
  \/ toLowerCase(ticket.status) \in ClaimedExcludedStatuses

\* the ticket text has a bracketed tag whose content, without white space
\* and in lower case, contains the identifier or is contained in it
TagOverlaps(ticket, projectIdentifier) ==
  LET text == toLowerCase(ticket.summary \o <<" ">> \o ticket.description)
      wanted == removeSpaces(toLowerCase(projectIdentifier))
  IN  \E i \in 1..Len(text) : \E j \in (i + 2)..Len(text) :
        /\ text[i] = "["
        /\ text[j] = "]"
        /\ \A m \in (i + 1)..(j - 1) : text[m] # "]"
        /\ LET content == removeSpaces(removeBrackets(SubSeq(text, i + 1, j - 1)))
           IN  includes(content, wanted) \/ includes(wanted, content)

ClaimedEligible(ticket, projectIdentifier) ==
  /\ ~ClaimedExcluded(ticket)
  /\ projectIdentifier # Null => TagOverlaps(ticket, projectIdentifier[1])

\* C13: on the keyword path no ticket of an excluded issue type or status
\* (compared without regard to case) is among the preliminary matches or the
\* matches of a task, and for a task with a project identifier neither is a
\* ticket without a bracketed tag overlapping the identifier.
C13_KeywordMatchesEligible ==
  (Done /\ path = "keyword") =>
    \A i \in 1..Len(processed) :
      /\ \A m \in 1..Len(processed[i].matches) :
           ClaimedEligible(processed[i].matches[m].ticket, entries[i].projectIdentifier)
      /\ \A m \in 1..Len(tasksWithPreliminaryMatches[i].preliminaryMatches) :
           ClaimedEligible(tasksWithPreliminaryMatches[i].preliminaryMatches[m],
                           entries[i].projectIdentifier)

C13_Witness ==
  /\ Done
  /\ path = "keyword"
  /\ \E k \in 1..Len(allTickets) :
       /\ ClaimedExcluded(allTickets[k])
       /\ toLowerCase(allTickets[k].status) # allTickets[k].status
       /\ TagOverlaps(allTickets[k], <<"m","y","d","e","b","i","t">>)
  /\ \E i \in 1..Len(processed) :
       /\ entries[i].projectIdentifier = Some(<<"m","y","d","e","b","i","t">>)
       /\ Len(processed[i].matches) >= 2

\* C14: on the oracle path every ticket among an entry's matches, and its
\* selected ticket, is eligible for the entry's task: not of an excluded
\* status or issue type and passing the project-identifier filter.
C14_OracleMatchesEligible ==
  (Done /\ path = "reply") =>
    \A i \in 1..Len(processed) :
      /\ \A m \in 1..Len(processed[i].matches) :
           /\ statusValid(processed[i].matches[m].ticket)
           /\ matchesProjectIdentifier(processed[i].matches[m].ticket,
                                       entries[i].projectIdentifier)
      /\ processed[i].selectedTicket # Null =>
           /\ statusValid(processed[i].selectedTicket[1])
           /\ matchesProjectIdentifier(processed[i].selectedTicket[1],
                                       entries[i].projectIdentifier)

\* the methods of the best matches of the matched entries
BestMethods ==
  { processed[i].matches[1].method :
      i \in { k \in 1..Len(processed) : processed[k].matches # << >> } }

\* C15: the best matches of one run all carry the method of the path taken:
\* gemini-ai-mega when the oracle path returned, keyword-batch otherwise.
C15_OneStrategyPerRun ==
  Done =>
    /\ BestMethods \subseteq {"gemini-ai-mega"} \/ BestMethods \subseteq {"keyword-batch"}
    /\ path \in {"reply", "exhausted"} => BestMethods \subseteq {"gemini-ai-mega"}
    /\ path \in {"empty", "keyword", "no-matcher"} => BestMethods \subseteq {"keyword-batch"}

C15_Witness ==
  /\ Done
  /\ path = "reply"
  /\ Len(processed) = 2
  /\ processed[1].matches # << >>
  /\ processed[2].matches = << >>
  /\ keywordResult(tasksWithPreliminaryMatches[2]) # Null
  /\ BestMethods = {"gemini-ai-mega"}

\* the captured task text of an entry: the trimmed first group of the regex
\* that recognized its line
CapturedText(entry) ==
  IF entry.isCompleted THEN trim(completedMatch(entry.originalLine)[1])
  ELSE trim(incompleteMatch(entry.originalLine)[1])

\* the position of the "]" that closes a leading tag [X] followed by
\* non-empty text, 0 when the text does not start that way
TagEnd(text) ==
  LET close == indexOf(text, "]", 2)
  IN  IF /\ text # << >>
         /\ text[1] = "["
         /\ close >= 3
         /\ trim(SubSeq(text, close + 1, Len(text))) # << >>
      THEN close ELSE 0

ExampleLine == <<"-"," ","[","m","y","d","e","b","i","t","]"," ","F","i","x"," ","l","o","g","i","n"," ","t","i","m","e","o","u","t">>

\* the example of C16 parses as the claim says
ExampleParsed(entry) ==
  entry.originalLine = ExampleLine =>
    /\ entry.task = <<"F","i","x"," ","l","o","g","i","n"," ","t","i","m","e","o","u","t">>
    /\ entry.projectIdentifier = Some(<<"m","y","d","e","b","i","t">>)
    /\ entry.isCompleted = FALSE

\* C16 as stated: a captured task text that starts with a tag [X] followed
\* by non-empty text gives project identifier X, trimmed, and as task the
\* remaining text, trimmed; any other text is kept whole, without project
\* identifier; no entry has an empty task.
C16_TagBecomesIdentifier ==
  Done =>
    \A i \in 1..Len(entries) :
      LET text == CapturedText(entries[i])
          close == TagEnd(text)
      IN  /\ entries[i].task # << >>
          /\ ExampleParsed(entries[i])
          /\ IF close > 0
             THEN /\ entries[i].projectIdentifier = Some(trim(SubSeq(text, 2, close - 1)))
                  /\ entries[i].task = trim(SubSeq(text, close + 1, Len(text)))
             ELSE /\ entries[i].projectIdentifier = Null
                  /\ entries[i].task = text

\* C16 amended: as stated, except that a tag whose X is blank gives no
\* project identifier (the task is still the remaining text, trimmed).
C16_BlankTagGivesNoIdentifier ==
  Done =>
    \A i \in 1..Len(entries) :
      LET text == CapturedText(entries[i])
          close == TagEnd(text)
      IN  /\ entries[i].task # << >>
          /\ ExampleParsed(entries[i])
          /\ IF close > 0
             THEN /\ entries[i].projectIdentifier =
                       IF trim(SubSeq(text, 2, close - 1)) = << >> THEN Null
                       ELSE Some(trim(SubSeq(text, 2, close - 1)))
                  /\ entries[i].task = trim(SubSeq(text, close + 1, Len(text)))
             ELSE /\ entries[i].projectIdentifier = Null
                  /\ entries[i].task = text

C16_Witness ==
  /\ Done
  /\ Len(entries) = 1
  /\ entries[1].originalLine = ExampleLine
  /\ TagEnd(CapturedText(entries[1])) > 0
  /\ entries[1].projectIdentifier = Some(<<"m","y","d","e","b","i","t">>)

\* the annotation of the given name that a text contains, if any
AnnotationIn(text, name) == annotationMatch(text, name)

\* C17: an entry parsed from a check-marked line is completed, its task text
\* contains no annotation and its timeInfo holds exactly the annotations of
\* the line (no timeInfo when the line has none); an entry parsed from an
\* incomplete line has no timeInfo.
C17_CompletedLineParsed ==
  Done =>
    \A i \in 1..Len(entries) :
      LET e == entries[i]
          onLine == { name \in AnnotationNames : AnnotationIn(e.originalLine, name) # Null }
      IN  /\ e.isCompleted = (e.originalLine[1] = CheckMark)
          /\ ~e.isCompleted => e.timeInfo = Null
          /\ e.isCompleted =>
               /\ \A name \in AnnotationNames : AnnotationIn(e.task, name) = Null
               /\ (e.timeInfo = Null) = (onLine = {})
               /\ e.timeInfo # Null =>
                    /\ e.timeInfo[1].started = AnnotationIn(e.originalLine, "started")
                    /\ e.timeInfo[1].done = AnnotationIn(e.originalLine, "done")
                    /\ e.timeInfo[1].lasted = AnnotationIn(e.originalLine, "lasted")

\* the tag the claim gives the line of an entry
ClaimedTag(entry) ==
  IF entry.selectedTicket # Null
  THEN <<"[", entry.selectedTicket[1].key, "]", " ">>
  ELSE IF entry.status = "skipped" THEN <<"[","S","K","I","P","P","E","D","]"," ">>
  ELSE <<"[","U","N","M","A","P","P","E","D","]"," ">>

\* the name of an annotation, spelled out
annotationOpenName(name) ==
  CASE name = "started" -> <<"s","t","a","r","t","e","d">>
    [] name = "done" -> <<"d","o","n","e">>
    [] name = "lasted" -> <<"l","a","s","t","e","d">>

\* the annotations of the given names that timeInfo holds, in that order
RECURSIVE ClaimedAnnotations(_, _)
ClaimedAnnotations(timeInfo, names) ==
  IF names = << >> \/ timeInfo = Null THEN << >>
  ELSE (IF timeInfo[1][Head(names)] # Null
        THEN <<" ", "@">> \o annotationOpenName(Head(names)) \o <<"(">>
               \o timeInfo[1][Head(names)][1] \o <<")">>
        ELSE << >>)
       \o ClaimedAnnotations(timeInfo, Tail(names))

\* C18: every entry is rendered as one line: "[KEY] task" with the key of
\* the selected ticket when there is one, else "[SKIPPED] task" when the
\* status is skipped, else "[UNMAPPED] task", followed by the annotations
\* that are present, in the order @started, @done, @lasted.
C18_RenderedLines ==
  Done =>
    /\ Len(timesheetOutput) = Len(processed)
    /\ \A i \in 1..Len(processed) :
         timesheetOutput[i] =
           ClaimedTag(processed[i]) \o processed[i].originalTask
             \o ClaimedAnnotations(processed[i].timeInfo, <<"started", "done", "lasted">>)

C18_Witness ==
  /\ Done
  /\ Len(processed) >= 2
  /\ processed[1].selectedTicket # Null
  /\ processed[1].status = "skipped"
  /\ processed[1].timeInfo # Null
  /\ processed[1].timeInfo[1].started # Null
  /\ processed[1].timeInfo[1].done # Null
  /\ processed[1].timeInfo[1].lasted # Null
  /\ processed[2].selectedTicket = Null
  /\ processed[2].status = "skipped"

\* C19: under the default thresholds an entry whose best score is at least
\* 0.3 and below 0.5 needs selection, and an unmapped entry has a best score
\* below 0.3 or none.
C19_LowBandNeedsSelection ==
  (Done /\ thresholds = DEFAULT_THRESHOLDS) =>
    \A i \in 1..Len(processed) :
      /\ ( /\ processed[i].confidence # Null
           /\ processed[i].confidence[1] >= DEFAULT_THRESHOLDS.minimum
           /\ processed[i].confidence[1] < DEFAULT_THRESHOLDS.choice )
         => processed[i].status = "needs-selection"
      /\ processed[i].status = "unmapped" =>
           \/ processed[i].confidence = Null
           \/ processed[i].confidence[1] < DEFAULT_THRESHOLDS.minimum

BatchCalls == { r \in DOMAIN calls : calls[r].cascade = "batch" /\ calls[r].pc # "idle" }

\* C21: in a call of callGeminiWithBatchRetry the first attempt goes to the
\* configured primary model, no model receives more than MAX_RETRIES
\* attempts, no attempt goes to a model that the call has left before, and
\* the call makes at most MAX_RETRIES x (number of models) attempts.
C21_CascadeInOrder ==
  \A r \in BatchCalls :
    /\ observed[r].made = 1 => calls[r].sentTo = MODEL_NAME
    /\ calls[r].attempt <= MAX_RETRIES
    /\ observed[r].onWatched <= MAX_RETRIES
    /\ ~(calls[r].pc = "attempt" /\ calls[r].sentTo = watched /\ observed[r].leftWatched)
    /\ observed[r].made <= MAX_RETRIES * Cardinality(Models)

\* C22: once an attempt of a batched call at a model has failed with a
\* model-not-found or quota error, the call makes no further attempt at
\* that model and waits for no backoff on it.
C22_BreakLeavesModel ==
  \A r \in BatchCalls :
    observed[r].watchedBroke =>
      ~(calls[r].pc \in {"attempt", "backoff"} /\ calls[r].sentTo = watched)

\* the step fails the attempt in flight of slot r
FailedStep(r) ==
  /\ calls[r].pc = "attempt"
  /\ calls'[r] # calls[r]
  /\ calls'[r].pc # "returned"

C24_NoInterference ==
  [][\A r \in DOMAIN calls :
       (calls[r].pc = "backoff" /\ calls'[r] = calls[r]) =>
         handleFor(calls[r].modelIndex, model') = handleFor(calls[r].modelIndex, model)]_vars

\* C25: an attempt in flight at cascade position i was sent to the i-th
\* model of the cascade.
C25_PositionDecidesModel ==
  \A r \in DOMAIN calls :
    calls[r].pc = "attempt" => calls[r].sentTo = modelsToTry[calls[r].modelIndex + 1]

\* C29: whatever the outcome of the attempt in flight, callGeminiWithRetry
\* and callGeminiWithBatchRetry continue in the same way from it (same wait,
\* same next model and attempt number, same end), so that equal sequences of
\* outcomes give equal sequences of calls.
C29_SameCascadeSteps ==
  \A r \in DOMAIN calls :
    calls[r].pc = "attempt" =>
      \A kind \in ErrorKinds :
        afterFailure("single", calls[r], kind) = afterFailure("batch", calls[r], kind)

\* the position of the ticket with the given key in the ticket universe
UniverseIndex(key) == CHOOSE j \in 1..Len(allTickets) : allTickets[j].key = key

\* the text that is scored for a task: the task after its project identifier
ScoredWords(taskItem) ==
  split(toLowerCase(IF taskItem.projectIdentifier # Null
                    THEN taskItem.projectIdentifier[1] \o <<" ">> \o taskItem.task
                    ELSE taskItem.task))

\* the positions of the eligible tickets that score for a task
Scoring(taskItem) ==
  { j \in 1..Len(allTickets) :
      /\ ClaimedEligible(allTickets[j], taskItem.projectIdentifier)
      /\ keywordScore(ScoredWords(taskItem), allTickets[j]) > 0 }

\* C26: the preliminary list of a task holds at most 5 tickets, all eligible,
\* in non-increasing score order, equal scores in the order of the ticket
\* universe, and its first ticket is the first ticket of the universe that
\* reaches the maximum score.
C26_TopFiveStable ==
  Done =>
    \A i \in 1..Len(tasksWithPreliminaryMatches) :
      LET taskItem == tasksWithPreliminaryMatches[i]
          list == taskItem.preliminaryMatches
          words == ScoredWords(taskItem)
      IN  /\ Len(list) <= 5
          /\ Len(list) = Min(5, Cardinality(Scoring(taskItem)))
          /\ \A k \in 1..Len(list) :
               /\ UniverseIndex(list[k].key) \in Scoring(taskItem)
               /\ list[k].prelimScore = keywordScore(words, allTickets[UniverseIndex(list[k].key)])
          /\ \A k \in 1..(Len(list) - 1) :
               /\ list[k].prelimScore >= list[k + 1].prelimScore
               /\ list[k].prelimScore = list[k + 1].prelimScore =>
                    UniverseIndex(list[k].key) < UniverseIndex(list[k + 1].key)
          /\ \A j \in Scoring(taskItem) :
               /\ keywordScore(words, allTickets[j]) <= list[1].prelimScore
               /\ keywordScore(words, allTickets[j]) = list[1].prelimScore =>
                    UniverseIndex(list[1].key) <= j

C26_Witness ==
  /\ Done
  /\ \E i \in 1..Len(tasksWithPreliminaryMatches) :
       LET taskItem == tasksWithPreliminaryMatches[i]
           list == taskItem.preliminaryMatches
       IN  /\ Len(list) = 5
           /\ Cardinality(Scoring(taskItem)) > 5
           /\ list[1].prelimScore = list[2].prelimScore
           /\ list[2].prelimScore > list[3].prelimScore
           /\ UniverseIndex(list[1].key) > 1

\* C27: in every ProcessedEntry with matches the first match has a score
\* greater than or equal to the score of every other match of the list.
C27_BestMatchFirst ==
  Done =>
    \A i \in 1..Len(processed) :
      \A k \in 1..Len(processed[i].matches) :
        processed[i].matches[1].score >= processed[i].matches[k].score

\* C28: on the keyword path a task whose preliminary list is empty or whose
\* best preliminary score is below 0.2 gets an entry without matches,
\* confidence and selected ticket, with status unmapped.
C28_KeywordFloor ==
  (Done /\ path = "keyword") =>
    \A i \in 1..Len(processed) :
      LET list == tasksWithPreliminaryMatches[i].preliminaryMatches
      IN  (list = << >> \/ 5 * list[1].prelimScore < ScoreScale) =>
            /\ processed[i].matches = << >>
            /\ processed[i].confidence = Null
            /\ processed[i].selectedTicket = Null
            /\ processed[i].status = "unmapped"

C28_Witness ==
  /\ Done
  /\ path = "keyword"
  /\ Len(processed) = 1
  /\ tasksWithPreliminaryMatches[1].preliminaryMatches # << >>
  /\ 5 * tasksWithPreliminaryMatches[1].preliminaryMatches[1].prelimScore < ScoreScale
  /\ thresholds.minimum < tasksWithPreliminaryMatches[1].preliminaryMatches[1].prelimScore
  /\ processed[1].status = "unmapped"
  /\ processed[1].confidence = Null

\* the elements of a sequence at the given positions, in order
RECURSIVE AtPositions(_, _)
AtPositions(s, positions) ==
  IF s = << >> THEN << >>
  ELSE AtPositions(SubSeq(s, 1, Len(s) - 1), positions)
         \o (IF Len(s) \in positions THEN <<s[Len(s)]>> ELSE << >>)

FailedEntries == [k \in 1..Len(failed) |-> failed[k].entry]

\* C30: the entries handed to logWorkToJira are a prefix of the input, one
\* submission is in flight at a time, and on return every entry has been
\* submitted once and the positions of the input are split between success
\* and failed, each list in input order.
C30_EveryEntryOnce ==
  /\ Len(submitted) <= Len(worklogEntries)
  /\ submitted = SubSeq(worklogEntries, 1, Len(submitted))
  /\ logPc = "submitting" => Len(success) + Len(failed) = Len(submitted) - 1
  /\ logPc = "done" =>
       /\ submitted = worklogEntries
       /\ Len(success) + Len(failed) = Len(worklogEntries)
       /\ \E succeeded \in SUBSET (1..Len(worklogEntries)) :
            /\ success = AtPositions(worklogEntries, succeeded)
            /\ FailedEntries =
                 AtPositions(worklogEntries, (1..Len(worklogEntries)) \ succeeded)

C30_Witness ==
  /\ logPc = "done"
  /\ Len(worklogEntries) = 3
  /\ Len(failed) = 2
  /\ failed[1].entry = worklogEntries[1]
  /\ success = << worklogEntries[2] >>
  /\ worklogEntries[1] = worklogEntries[3]

====
